---- MODULE Spec2Model ----
(***************************************************************************)
(* Ingestion pipeline of the crypto attack tracker:                        *)
(*   scrape leaderboard -> normalize -> filter duplicates -> merge ->      *)
(*   upsert -> log.                                                        *)
(* Strings are sequences of one-character strings, so that trimming,       *)
(* lower-casing, pattern matching and key concatenation are computed.      *)
(* JavaScript values that may be missing or of several types are tagged    *)
(* records [t, s, n].                                                      *)
(***************************************************************************)
EXTENDS Integers, Sequences, FiniteSets, TLC

VARIABLES
    site,          \* the entry lists the leaderboard page can show
    supabase,      \* TRUE when the Supabase client is configured, FALSE when it is null
    attacksTable,  \* the rows of table attacks
    refresh_logs,  \* the rows of table refresh_logs, in insertion order
    run,           \* per invocation of scrapeRektLeaderboard: its position and locals
    runsStarted,   \* number of invocations so far
    op,            \* pure-function harness: the function applied ("none" before)
    arg,           \* pure-function harness: its input
    res            \* pure-function harness: its result

(***************************************************************************)
(* JavaScript values                                                       *)
(***************************************************************************)
Str(s) == [t |-> "string", s |-> s, n |-> 0]
Num(k) == [t |-> "number", s |-> <<>>, n |-> k]
NaN == [t |-> "nan", s |-> <<>>, n |-> 0]
Undef == [t |-> "undefined", s |-> <<>>, n |-> 0]
JNull == [t |-> "null", s |-> <<>>, n |-> 0]

\* ToBoolean: '', 0, NaN, null and undefined are falsy.
Truthy(v) ==
    CASE v.t = "string" -> v.s # <<>>
      [] v.t = "number" -> v.n # 0
      [] OTHER -> FALSE

\* a || b
JsOr(a, b) == IF Truthy(a) THEN a ELSE b

\* String(v) and template interpolation ${v}
DigitChars == <<"0", "1", "2", "3", "4", "5", "6", "7", "8", "9">>

RECURSIVE NatToString(_)
NatToString(k) ==
    IF k < 10 THEN <<DigitChars[k + 1]>>
    ELSE NatToString(k \div 10) \o <<DigitChars[(k % 10) + 1]>>

JsString(v) ==
    CASE v.t = "string" -> v.s
      [] v.t = "number" -> IF v.n < 0 THEN <<"-">> \o NatToString(-v.n) ELSE NatToString(v.n)
      [] v.t = "nan" -> <<"N", "a", "N">>
      [] v.t = "null" -> <<"n", "u", "l", "l">>
      [] OTHER -> <<"u", "n", "d", "e", "f", "i", "n", "e", "d">>

(***************************************************************************)
(* String primitives                                                       *)
(***************************************************************************)
IsDigit(c) == c \in {"0", "1", "2", "3", "4", "5", "6", "7", "8", "9"}
IsSpace(c) == c = " "

DigitVal(c) == CHOOSE k \in 0..9 : DigitChars[k + 1] = c

LowerChar(c) ==
    CASE c = "A" -> "a"
      [] c = "B" -> "b"
      [] c = "C" -> "c"
      [] c = "E" -> "e"
      [] c = "F" -> "f"
      [] c = "H" -> "h"
      [] c = "L" -> "l"
      [] c = "N" -> "n"
      [] c = "R" -> "r"
      [] c = "T" -> "t"
      [] c = "U" -> "u"
      [] c = "Y" -> "y"
      [] OTHER -> c

toLowerCase(s) == [i \in 1..Len(s) |-> LowerChar(s[i])]

RECURSIVE trimStart(_)
trimStart(s) ==
    IF s # <<>> /\ IsSpace(Head(s)) THEN trimStart(Tail(s)) ELSE s

RECURSIVE trimEnd(_)
trimEnd(s) ==
    IF s # <<>> /\ IsSpace(s[Len(s)]) THEN trimEnd(SubSeq(s, 1, Len(s) - 1)) ELSE s

trim(s) == trimEnd(trimStart(s))

RECURSIVE padStart(_, _, _)
padStart(s, len, fill) ==
    IF Len(s) >= len THEN s ELSE padStart(<<fill>> \o s, len, fill)

\* s.replace(/\$|,/g, '')
stripCurrency(s) == SelectSeq(s, LAMBDA c : c \notin {"$", ","})

\* Length of the longest prefix of s made of digits.
RECURSIVE DigitPrefixLen(_)
DigitPrefixLen(s) ==
    IF s # <<>> /\ IsDigit(Head(s)) THEN 1 + DigitPrefixLen(Tail(s)) ELSE 0

RECURSIVE DigitsToNat(_)
DigitsToNat(s) ==
    IF s = <<>> THEN 0 ELSE 10 * DigitsToNat(SubSeq(s, 1, Len(s) - 1)) + DigitVal(s[Len(s)])

\* parseFloat / parseInt on strings without a fraction or exponent part:
\* leading white space is skipped, an optional sign is read, then the
\* longest run of digits; no digit gives NaN; trailing text is ignored.
parseFloat(s) ==
    LET u == trimStart(s)
        signed == u # <<>> /\ Head(u) \in {"-", "+"}
        body == IF signed THEN Tail(u) ELSE u
        k == DigitPrefixLen(body)
        mag == DigitsToNat(SubSeq(body, 1, k))
    IN  IF k = 0 THEN NaN
        ELSE IF signed /\ Head(u) = "-" THEN Num(-mag) ELSE Num(mag)

parseInt(s) == parseFloat(s)

(***************************************************************************)
(* Record Normalizer (llmProcessor.ts)                                     *)
(***************************************************************************)
AllDigits(s, from, to) == \A i \in from..to : IsDigit(s[i])

\* /^(\d{4})-(\d{2})-(\d{2})/
MatchYMD(s) ==
    /\ Len(s) >= 10
    /\ AllDigits(s, 1, 4) /\ s[5] = "-"
    /\ AllDigits(s, 6, 7) /\ s[8] = "-"
    /\ AllDigits(s, 9, 10)

\* /^(\d{2})\/(\d{2})\/(\d{4})/
MatchMDY4(s) ==
    /\ Len(s) >= 10
    /\ AllDigits(s, 1, 2) /\ s[3] = "/"
    /\ AllDigits(s, 4, 5) /\ s[6] = "/"
    /\ AllDigits(s, 7, 10)

\* /^(\d{2})\/(\d{2})\/(\d{2})/
MatchMDY2(s) ==
    /\ Len(s) >= 8
    /\ AllDigits(s, 1, 2) /\ s[3] = "/"
    /\ AllDigits(s, 4, 5) /\ s[6] = "/"
    /\ AllDigits(s, 7, 8)

CenturyPivot == 50

\* The date-format loop of validateAttack: the first matching format wins.
\* Variant of coerceDate that tries MM/DD/YY before MM/DD/YYYY.
coerceDate_shortYearFirst(attackDate) ==
    IF attackDate.t # "string" THEN attackDate
    ELSE LET d == attackDate.s
             m1 == SubSeq(d, 1, 2)
             m2 == SubSeq(d, 4, 5)
         IN  IF MatchYMD(d) THEN attackDate
             ELSE IF MatchMDY2(d)
                  THEN LET m3 == SubSeq(d, 7, 8)
                           year == IF parseInt(m3).n < CenturyPivot
                                   THEN <<"2", "0">> \o m3
                                   ELSE <<"1", "9">> \o m3
                       IN  Str(year \o <<"-">> \o padStart(m1, 2, "0")
                               \o <<"-">> \o padStart(m2, 2, "0"))
             ELSE IF MatchMDY4(d)
                  THEN Str(SubSeq(d, 7, 10) \o <<"-">> \o padStart(m1, 2, "0")
                           \o <<"-">> \o padStart(m2, 2, "0"))
             ELSE attackDate

coerceDate(attackDate) ==
    IF attackDate.t # "string" THEN attackDate
    ELSE LET d == attackDate.s
             m1 == SubSeq(d, 1, 2)
             m2 == SubSeq(d, 4, 5)
         IN  IF MatchYMD(d) THEN attackDate
             ELSE IF MatchMDY4(d)
                  THEN Str(SubSeq(d, 7, 10) \o <<"-">> \o padStart(m1, 2, "0")
                           \o <<"-">> \o padStart(m2, 2, "0"))
             ELSE IF MatchMDY2(d)
                  THEN LET m3 == SubSeq(d, 7, 8)
                           year == IF parseInt(m3).n < CenturyPivot
                                   THEN <<"2", "0">> \o m3
                                   ELSE <<"1", "9">> \o m3
                       IN  Str(year \o <<"-">> \o padStart(m1, 2, "0")
                               \o <<"-">> \o padStart(m2, 2, "0"))
             ELSE attackDate

\* Loss-amount coercion of validateAttack.
coerceAmount(lossAmount) ==
    IF lossAmount.t = "string" THEN parseFloat(trim(stripCurrency(lossAmount.s)))
    ELSE lossAmount

\* isNaN(v): Number(undefined) is NaN, Number(null) is 0.
isNaN(v) == v.t \in {"nan", "undefined"}

\* v <= 0 under ToNumber (null converts to 0; NaN compares false).
NonPositive(v) ==
    CASE v.t = "number" -> v.n <= 0
      [] v.t = "null" -> TRUE
      [] OTHER -> FALSE

Exploit == <<"e", "x", "p", "l", "o", "i", "t">>
Unknown == <<"u", "n", "k", "n", "o", "w", "n">>
AttackOn == <<"A", "t", "t", "a", "c", "k", " ", "o", "n", " ">>

NoRecord == [null |-> TRUE]

validateAttack(attack) ==
    LET protocolName == JsOr(attack.protocol_name, attack.protocol)
        attackDate == coerceDate(attack.attack_date)
        lossAmount == coerceAmount(attack.loss_amount_usd)
        attackType0 == JsOr(attack.attack_type, Str(Exploit))
        attackType == IF attackType0.t = "string" /\ toLowerCase(attackType0.s) = Unknown
                      THEN Str(Exploit) ELSE attackType0
        blockchain == IF Truthy(attack.blockchain) /\ attack.blockchain.t = "string"
                      THEN Str(trim(attack.blockchain.s)) ELSE Undef
        description0 == JsOr(attack.description, Str(<<>>))
        description == IF ~Truthy(description0)
                       THEN Str(AttackOn \o JsString(protocolName))
                       ELSE description0
        sourceUrl == JsOr(attack.source_url, attack.url)
    IN  IF ~Truthy(protocolName) THEN NoRecord
        ELSE IF isNaN(lossAmount) \/ NonPositive(lossAmount) THEN NoRecord
        ELSE [protocol_name |-> trim(JsString(protocolName)),
              attack_date |-> attackDate,
              attack_type |-> trim(JsString(attackType)),
              loss_amount_usd |-> lossAmount,
              description |-> trim(JsString(description)),
              source_url |-> sourceUrl,
              blockchain |-> blockchain,
              data_source |-> "rekt"]

\* The object literal basicProcess hands to validateAttack.
basicInput(attack) ==
    [protocol_name |-> attack.protocol_name,
     protocol |-> Undef,
     attack_date |-> attack.attack_date,
     attack_type |-> JsOr(attack.attack_type, Str(Exploit)),
     loss_amount_usd |-> attack.loss_amount_usd,
     description |-> JsOr(attack.description,
                          Str(AttackOn \o JsString(attack.protocol_name))),
     source_url |-> attack.source_url,
     url |-> Undef,
     blockchain |-> attack.blockchain]

RECURSIVE basicProcess(_)
basicProcess(attacks) ==
    IF attacks = <<>> THEN <<>>
    ELSE LET validated == validateAttack(basicInput(Head(attacks)))
         IN  (IF validated # NoRecord THEN <<validated>> ELSE <<>>)
                \o basicProcess(Tail(attacks))

processAttackData(rawAttacks) == basicProcess(rawAttacks)

(***************************************************************************)
(* Entry Parser (rektScraper.ts)                                           *)
(***************************************************************************)
BASE_URL == <<"h", "t", "t", "p", "s", ":", "/", "/", "r", "e", "k", "t", ".", "n", "e", "w", "s">>

startsWith(s, pat) == Len(s) >= Len(pat) /\ SubSeq(s, 1, Len(pat)) = pat

\* s.indexOf(pat) + 1: the first position where pat occurs, 0 when it does not.
IndexOf(s, pat) ==
    LET hits == {i \in 1..(Len(s) - Len(pat) + 1) : SubSeq(s, i, i + Len(pat) - 1) = pat}
    IN  IF hits = {} THEN 0 ELSE CHOOSE i \in hits : \A j \in hits : i <= j

includes(s, pat) == IndexOf(s, pat) # 0

\* s.split(pat)[0]
splitFirst(s, pat) ==
    IF includes(s, pat) THEN SubSeq(s, 1, IndexOf(s, pat) - 1) ELSE s

\* Variant of stripOrdinal that leaves the ordinal in place.
stripOrdinal_keep(s) == s

\* s.replace(/^\d+\.\s*/, '')
stripOrdinal(s) ==
    LET k == DigitPrefixLen(s)
    IN  IF k >= 1 /\ Len(s) > k /\ s[k + 1] = "."
        THEN trimStart(SubSeq(s, k + 2, Len(s)))
        ELSE s

\* href.startsWith('/') && href.includes('/') && !href.startsWith('/#')
IsArticleHref(href) ==
    startsWith(href, <<"/">>) /\ includes(href, <<"/">>) /\ ~startsWith(href, <<"/", "#">>)

\* Length of the longest prefix of s made of digits and commas.
RECURSIVE AmountPrefixLen(_)
AmountPrefixLen(s) ==
    IF s # <<>> /\ (IsDigit(Head(s)) \/ Head(s) = ",")
    THEN 1 + AmountPrefixLen(Tail(s)) ELSE 0

\* text.match(/\$([\d,]+(?:\.\d+)?)/): group 1 of the first match, as a
\* string value, or null. Entry texts carry whole-dollar amounts.
amountMatch(text) ==
    LET hits == {i \in 1..(Len(text) - 1) :
                    text[i] = "$" /\ (IsDigit(text[i + 1]) \/ text[i + 1] = ",")}
    IN  IF hits = {} THEN JNull
        ELSE LET i == CHOOSE h \in hits : \A j \in hits : h <= j
                 rest == SubSeq(text, i + 1, Len(text))
             IN  Str(SubSeq(rest, 1, AmountPrefixLen(rest)))

\* A match of \d{1,2}\/\d{1,2}\/\d{4} starting at position i: its length, or 0.
\* Both quantifiers are greedy, so two digits are tried before one.
DateMatchLenAt(s, i) ==
    LET ok(a, b) ==
            /\ i + a + b + 5 <= Len(s)
            /\ AllDigits(s, i, i + a - 1) /\ s[i + a] = "/"
            /\ AllDigits(s, i + a + 1, i + a + b) /\ s[i + a + b + 1] = "/"
            /\ AllDigits(s, i + a + b + 2, i + a + b + 5)
    IN  IF ok(2, 2) THEN 10
        ELSE IF ok(2, 1) THEN 9
        ELSE IF ok(1, 2) THEN 9
        ELSE IF ok(1, 1) THEN 8
        ELSE 0

\* text.match(/(\d{1,2}\/\d{1,2}\/\d{4})/): the first match, or null.
dateMatch(text) ==
    LET hits == {i \in 1..Len(text) : DateMatchLenAt(text, i) > 0}
    IN  IF hits = {} THEN JNull
        ELSE LET i == CHOOSE h \in hits : \A j \in hits : h <= j
             IN  Str(SubSeq(text, i, i + DateMatchLenAt(text, i) - 1))

\* const [month, day, year] = dateStr.split('/'), then
\* `${year}-${month.padStart(2, '0')}-${day.padStart(2, '0')}`
isoFromSlashDate(dateStr) ==
    LET p1 == IndexOf(dateStr, <<"/">>)
        month == SubSeq(dateStr, 1, p1 - 1)
        rest == SubSeq(dateStr, p1 + 1, Len(dateStr))
        p2 == IndexOf(rest, <<"/">>)
        day == SubSeq(rest, 1, p2 - 1)
        year == SubSeq(rest, p2 + 1, Len(rest))
    IN  year \o <<"-">> \o padStart(month, 2, "0") \o <<"-">> \o padStart(day, 2, "0")

\* The name and the source link the link loop of parseHTMLEntry leaves:
\* the first article link gives the URL, the last one with a text longer
\* than two characters gives the name.
RECURSIVE linkScan(_, _, _)
linkScan(links, protocolName, sourceUrl) ==
    IF links = <<>> THEN [protocolName |-> protocolName, sourceUrl |-> sourceUrl]
    ELSE LET link == Head(links)
             linkText == trim(link.text)
         IN  IF IsArticleHref(link.href)
             THEN linkScan(Tail(links),
                           IF linkText # <<>> /\ Len(linkText) > 2
                           THEN Str(trim(splitFirst(linkText, <<" ", "-", " ">>)))
                           ELSE protocolName,
                           IF ~Truthy(sourceUrl) THEN Str(BASE_URL \o link.href)
                           ELSE sourceUrl)
             ELSE linkScan(Tail(links), protocolName, sourceUrl)

\* parseHTMLEntry(entry), with `today` standing for
\* new Date().toISOString().split('T')[0].
parseHTMLEntry(entry, today) ==
    LET text == trim(entry.text)
        scanned == linkScan(entry.links, JNull, Undef)
        fromText == LET n0 == trim(stripOrdinal(trim(splitFirst(text, <<"$">>))))
                    IN  IF includes(n0, <<" ", "-", " ">>) THEN trim(splitFirst(n0, <<" ", "-", " ">>)) ELSE n0
        protocolName == IF ~Truthy(scanned.protocolName)
                        THEN (IF includes(text, <<"$">>) THEN Str(fromText)
                              ELSE scanned.protocolName)
                        ELSE scanned.protocolName
        am == amountMatch(text)
        amount == IF am.t = "string" THEN parseFloat(stripCurrency(am.s)) ELSE JNull
        dateStr == dateMatch(text)
        attackDate == IF Truthy(dateStr) THEN isoFromSlashDate(dateStr.s) ELSE today
    IN  IF ~Truthy(protocolName) \/ ~Truthy(amount) THEN NoRecord
        ELSE [protocol_name |-> protocolName,
              attack_date |-> Str(attackDate),
              loss_amount_usd |-> amount,
              description |-> Str(AttackOn \o protocolName.s),
              source_url |-> scanned.sourceUrl,
              attack_type |-> Str(Exploit),
              blockchain |-> Undef,
              article_content |-> Undef,
              data_source |-> "rekt"]

\* parseEntry: extractEntries yields elements only, so every entry takes
\* the parseHTMLEntry branch.
parseEntry(entry, today) == parseHTMLEntry(entry, today)

\* The parse loop of scrapeLeaderboard: rejected entries are skipped.
RECURSIVE parseEntries(_, _)
parseEntries(entries, today) ==
    IF entries = <<>> THEN <<>>
    ELSE LET attackData == parseEntry(Head(entries), today)
         IN  (IF attackData # NoRecord THEN <<attackData>> ELSE <<>>)
                \o parseEntries(Tail(entries), today)

(***************************************************************************)
(* Leaderboard entries the feed can hold                                   *)
(***************************************************************************)
NoLinks == <<>>

\* "1. Ab $5 | 1/2/2020": plain row
EntryAb == [text |-> <<"1", ".", " ", "A", "b", " ", "$", "5", " ", "|", " ", "1", "/", "2", "/", "2", "0", "2", "0">>, links |-> NoLinks]
\* same protocol in another letter case, with a qualifier and an article link
EntryAB == [text |-> <<" ", "2", ".", " ", "A", "B", " ", "-", " ", "x", " ", "$", "1", ",", "2", "0", "0", " ", "|", " ", "0", "1", "/", "0", "2", "/", "2", "0", "2", "0">>,
            links |-> <<[href |-> <<"/", "a", "b">>, text |-> <<"A", "B">>]>>]
\* linked row whose link text names the protocol; no date in the row
EntryCurve == [text |-> <<"3", ".", " ", "T", "o", "p", " ", "C", "u", "b", " ", "-", " ", "h", "a", "c", "k", " ", "$", "7">>, links |-> <<[href |-> <<"/", "#", "t", "o", "p">>, text |-> <<"T", "o", "p">>],
                                              [href |-> <<"/", "c", "u">>, text |-> <<"C", "u", "b", " ", "-", " ", "h", "a", "c", "k">>]>>]
\* rows the parser rejects: no name before the amount, a zero amount
EntryNoName == [text |-> <<"4", ".", " ", "$", "3", " ", "|", " ", "1", "/", "2", "/", "2", "0", "2", "0">>, links |-> NoLinks]
EntryZero == [text |-> <<"5", ".", " ", "C", "u", " ", "$", "0", " ", "|", " ", "1", "/", "2", "/", "2", "0", "2", "0">>, links |-> NoLinks]

FeedEntries == {EntryAb, EntryAB, EntryCurve, EntryNoName, EntryZero}

Todays == {<<"2", "0", "2", "0", "-", "0", "1", "-", "0", "2">>, <<"2", "0", "2", "1", "-", "0", "6", "-", "3", "0">>}

(***************************************************************************)
(* Article Enricher, as seen by the article loop of scrapeLeaderboard      *)
(***************************************************************************)
\* What scrapeArticleDetails can return: nothing (network error, non-OK
\* status, no content found) or details mined from the page.
NoDetails ==
    [description |-> Undef, attack_type |-> Undef, blockchain |-> Undef, full_content |-> Undef]

PageDetails ==
    [description |-> Str(<<"d">>), attack_type |-> Str(<<"f", "l", "a", "s", "h">>), blockchain |-> Str(<<"B", "S", "C">>),
     full_content |-> Str(<<"d">>)]

ArticleDetails == {NoDetails, PageDetails}

\* How the request for an article page ends: fetch or parse throws, the
\* status is not OK, or the page is read and yields details.
Fetched(kind, details) == [kind |-> kind, details |-> details]

ArticleOutcomes ==
    {Fetched("throws", PageDetails), Fetched("notOk", PageDetails)}
        \cup {Fetched("page", d) : d \in ArticleDetails}

\* Variant of scrapeArticleDetails that reports what the page held even
\* when the request failed.
scrapeArticleDetails_keepsPartial(outcome) == outcome.details

\* scrapeArticleDetails: `details` stays empty unless the page was read.
scrapeArticleDetails(outcome) ==
    IF outcome.kind = "page" THEN outcome.details ELSE NoDetails

\* The merge of the article details into the leaderboard record.
mergeDetails(attack, articleDetails) ==
    [attack EXCEPT
        !.description = IF Truthy(articleDetails.description)
                        THEN articleDetails.description ELSE @,
        !.attack_type = IF Truthy(articleDetails.attack_type)
                        THEN articleDetails.attack_type ELSE @,
        !.blockchain = IF Truthy(articleDetails.blockchain)
                       THEN articleDetails.blockchain ELSE @,
        !.article_content = IF Truthy(articleDetails.full_content)
                            THEN articleDetails.full_content ELSE @]

PauseEvery == 5

(***************************************************************************)
(* Duplicate Resolver, fast path (duplicateChecker.ts)                     *)
(***************************************************************************)
\* Variant of compositeKey that keeps the letter case of the name.
compositeKey_caseSensitive(protocol_name, attack_date) ==
    trim(protocol_name) \o <<"_">> \o JsString(attack_date)

\* `${protocol_name.toLowerCase().trim()}_${attack_date}`
compositeKey(protocol_name, attack_date) ==
    trim(toLowerCase(protocol_name)) \o <<"_">> \o JsString(attack_date)

\* What the select on table attacks can give.
ReadOk(rows) == [kind |-> "ok", data |-> rows]
ReadError == [kind |-> "error", data |-> {}]
ReadThrows == [kind |-> "throws", data |-> {}]

\* Variant of filterDuplicates that lets no candidate through when the
\* existing keys could not be read.
filterDuplicates_failClosed(newAttacks, configured, read) ==
    IF newAttacks = <<>> THEN [unique |-> <<>>, duplicates |-> <<>>]
    ELSE IF ~configured THEN [unique |-> <<>>, duplicates |-> newAttacks]
    ELSE IF read.kind # "ok" THEN [unique |-> <<>>, duplicates |-> newAttacks]
    ELSE LET existingSet ==
                 {compositeKey(a.protocol_name, a.attack_date) : a \in read.data}
             isDup(attack) ==
                 compositeKey(attack.protocol_name, attack.attack_date) \in existingSet
         IN  [unique |-> SelectSeq(newAttacks, LAMBDA a : ~isDup(a)),
              duplicates |-> SelectSeq(newAttacks, isDup)]

\* Variant of filterDuplicates that does not look the candidates up in the
\* rows it read.
filterDuplicates_noLookup(newAttacks, configured, read) ==
    [unique |-> newAttacks, duplicates |-> <<>>]

filterDuplicates(newAttacks, configured, read) ==
    IF newAttacks = <<>> THEN [unique |-> <<>>, duplicates |-> <<>>]
    ELSE IF ~configured THEN [unique |-> newAttacks, duplicates |-> <<>>]
    ELSE IF read.kind # "ok" THEN [unique |-> newAttacks, duplicates |-> <<>>]
    ELSE LET existingSet ==
                 {compositeKey(a.protocol_name, a.attack_date) : a \in read.data}
             isDup(attack) ==
                 compositeKey(attack.protocol_name, attack.attack_date) \in existingSet
         IN  [unique |-> SelectSeq(newAttacks, LAMBDA a : ~isDup(a)),
              duplicates |-> SelectSeq(newAttacks, isDup)]

\* TRUE when filterDuplicates sends the select to the store.
issuesRead(newAttacks, configured) == newAttacks # <<>> /\ configured

(***************************************************************************)
(* Persistence Gateway (supabase.ts)                                       *)
(***************************************************************************)
\* An error value: its message and what String(error) gives.
Err(message, str) == [message |-> message, str |-> str]
NoError == Err("", "")

\* Variant of errorText that never falls back on String(error).
errorText_messageOnly(error) == error.message

\* error.message || String(error)
errorText(error) == IF error.message # "" THEN error.message ELSE error.str

NotConfigured == Err("Supabase is not configured", "Error: Supabase is not configured")

\* Variant of upsert that adds every row without resolving conflicts.
upsert_plainInsert(table, rows) == table \cup {rows[i] : i \in 1..Len(rows)}

\* upsert(rows, {onConflict: 'protocol_name,attack_date'}): a row whose
\* (protocol_name, attack_date) is in the table replaces it, any other row
\* is added. The constraint compares the stored text, letter case included.
upsert(table, rows) ==
    LET incoming == {rows[i] : i \in 1..Len(rows)}
        conflicts(r) == \E x \in incoming : /\ x.protocol_name = r.protocol_name
                                            /\ x.attack_date = r.attack_date
    IN  {r \in table : ~conflicts(r)} \cup incoming

\* The row logRefresh builds.
logRow(id, status, records_fetched, records_inserted, error_message) ==
    [id |-> id,
     status |-> status,
     refresh_completed_at |-> (status = "completed"),
     records_fetched |-> records_fetched,
     records_inserted |-> records_inserted,
     error_message |-> error_message]

\* logRefresh: inserts one row and returns its id; when the client is not
\* configured or the insert fails nothing is written and undefined (0) is
\* returned. `accepted` is the store's answer to the insert.
logRefresh(logs, configured, accepted, status, records_fetched, records_inserted, error_message) ==
    IF ~configured \/ ~accepted THEN [logs |-> logs, id |-> 0]
    ELSE [logs |-> Append(logs, logRow(Len(logs) + 1, status, records_fetched,
                                       records_inserted, error_message)),
          id |-> Len(logs) + 1]

(***************************************************************************)
(* Ingestion Orchestrator (api.ts, attacksApi.scrapeRektLeaderboard)       *)
(***************************************************************************)
\* The within-batch merge into cleanedDataMap, kept in insertion order.
cleanRow(attack) ==
    [protocol_name |-> attack.protocol_name,
     attack_date |-> attack.attack_date,
     attack_type |-> attack.attack_type,
     loss_amount_usd |-> attack.loss_amount_usd,
     description |-> IF attack.description # <<>> THEN Str(attack.description) ELSE Undef,
     source_url |-> JsOr(attack.source_url, Undef),
     blockchain |-> JsOr(attack.blockchain, Undef),
     data_source |-> attack.data_source]

RECURSIVE cleanedDataMap(_, _)
cleanedDataMap(unique, map) ==
    IF unique = <<>> THEN map
    ELSE LET attack == Head(unique)
             key == compositeKey(attack.protocol_name, attack.attack_date)
             at == {k \in 1..Len(map) : map[k].key = key}
         IN  IF at = {}
             THEN cleanedDataMap(Tail(unique), Append(map, [key |-> key, value |-> cleanRow(attack)]))
             ELSE LET k == CHOOSE k \in at : TRUE
                      existing == map[k].value
                  IN  IF \/ (~Truthy(existing.description) /\ attack.description # <<>>)
                         \/ (~Truthy(existing.source_url) /\ Truthy(attack.source_url))
                      THEN cleanedDataMap(Tail(unique),
                                          [map EXCEPT ![k] = [key |-> key, value |-> cleanRow(attack)]])
                      ELSE cleanedDataMap(Tail(unique), map)

\* Variant of cleanedData without the within-batch merge.
cleanedData_noMerge(unique) == [k \in 1..Len(unique) |-> cleanRow(unique[k])]

\* Variant of cleanedData in which a later candidate of a key always
\* replaces the kept one.
cleanedData_keepLast(unique) ==
    LET key(k) == compositeKey(unique[k].protocol_name, unique[k].attack_date)
        firsts == SelectSeq([k \in 1..Len(unique) |-> k],
                            LAMBDA k : \A m \in 1..(k - 1) : key(m) # key(k))
        last(k) == CHOOSE m \in k..Len(unique) :
                       /\ key(m) = key(k)
                       /\ \A n \in (m + 1)..Len(unique) : key(n) # key(k)
    IN  [j \in 1..Len(firsts) |-> cleanRow(unique[last(firsts[j])])]

\* Array.from(cleanedDataMap.values())
cleanedData(unique) ==
    LET map == cleanedDataMap(unique, <<>>)
    IN  [k \in 1..Len(map) |-> map[k].value]

MaxRuns == 2
MaxEntries == 2

\* The entry lists extractEntries can return.
RECURSIVE SeqsUpTo(_, _)
SeqsUpTo(S, k) ==
    IF k = 0 THEN {<<>>}
    ELSE LET shorter == SeqsUpTo(S, k - 1)
         IN  shorter \cup {Append(q, x) : q \in {t \in shorter : Len(t) = k - 1}, x \in S}

Feeds == SeqsUpTo(FeedEntries, MaxEntries)

\* Errors the leaderboard fetch raises.
FetchErrors ==
    {Err("CORS error: Unable to fetch from rekt.news.", "Error: CORS error"),
     Err("HTTP error! status: 500", "Error: HTTP error! status: 500")}

\* Errors the upsert returns; the second has no message text.
UpsertErrors ==
    {Err("upsert rejected", "[object Object]"), Err("", "[object Object]")}

NoOutcome == [kind |-> "none", status |-> "", scraped |-> 0, duplicates |-> 0,
              inserted |-> 0, job_id |-> 0, error |-> NoError]

Returned(status, scraped, duplicates, inserted, job_id) ==
    [kind |-> "returned", status |-> status, scraped |-> scraped, duplicates |-> duplicates,
     inserted |-> inserted, job_id |-> job_id, error |-> NoError]

Thrown(error) ==
    [kind |-> "thrown", status |-> "", scraped |-> 0, duplicates |-> 0,
     inserted |-> 0, job_id |-> 0, error |-> error]

IdleRun ==
    [pc |-> "idle",
     logId |-> 0,
     attacks |-> <<>>,           \* scrapeLeaderboard's list
     parsed |-> <<>>,            \* that list as the parse loop left it
     fetches |-> <<>>,           \* the article requests made: index, url, how it ended
     i |-> 0,                    \* scrapeLeaderboard's article loop index
     rawAttacks |-> <<>>,
     processedAttacks |-> <<>>,
     readRows |-> -1,            \* rows the select of existing keys returned (-1: none came back)
     unique |-> <<>>,
     duplicates |-> <<>>,
     cleaned |-> <<>>,           \* cleanedData, the rows given to insertAttacks
     result |-> 0,               \* result.records_inserted
     error |-> NoError,          \* the error on its way to the catch block
     outcome |-> NoOutcome,      \* what the caller gets
     scanned |-> -1,             \* entries.length in scrapeLeaderboard (-1: no page yet)
     logCalls |-> <<>>,          \* the logRefresh calls made
     trace |-> <<>>]             \* the external calls made, in order

Procs == DOMAIN run

\* The answers the store can give to an insert: none is asked for when the
\* client is not configured.
StoreAnswers == IF supabase THEN BOOLEAN ELSE {FALSE}

\* A logRefresh call as made: its arguments, the store's answer to the
\* insert, and the id of the row written (0: none).
LogCall(status, records_fetched, records_inserted, error_message, accepted, id) ==
    [status |-> status, records_fetched |-> records_fetched,
     records_inserted |-> records_inserted, error_message |-> error_message,
     accepted |-> accepted, id |-> id]

\* Line 101: the run starts and writes the 'running' log entry.
StartRun(p) ==
    /\ run[p].pc \in {"idle", "done"}
    /\ runsStarted < MaxRuns
    /\ \E accepted \in StoreAnswers :
         LET w == logRefresh(refresh_logs, supabase, accepted, "running", Undef, Undef, "")
         IN  /\ refresh_logs' = w.logs
             /\ run' = [run EXCEPT ![p] =
                    [IdleRun EXCEPT !.pc = "scrape",
                                    !.logId = w.id,
                                    !.logCalls = <<LogCall("running", Undef, Undef, "", accepted, w.id)>>,
                                    !.trace = <<"log">>]]
    /\ runsStarted' = runsStarted + 1
    /\ UNCHANGED <<site, supabase, attacksTable, op, arg, res>>

\* scrapeLeaderboard, lines 29-51: the leaderboard fetch fails; the error
\* passes through scrapeLeaderboard's catch to the orchestrator's.
FetchLeaderboardFails(p) ==
    /\ run[p].pc = "scrape"
    /\ \E e \in FetchErrors :
         run' = [run EXCEPT ![p].pc = "catch",
                            ![p].error = e,
                            ![p].trace = Append(@, "fetchBoard")]
    /\ UNCHANGED <<site, supabase, attacksTable, refresh_logs, runsStarted, op, arg, res>>

\* scrapeLeaderboard, lines 53-73: the page arrives, entries are extracted
\* and parsed.
FetchLeaderboard(p) ==
    /\ run[p].pc = "scrape"
    /\ \E entries \in site, today \in Todays :
         run' = [run EXCEPT ![p].pc = "articles",
                            ![p].scanned = Len(entries),
                            ![p].attacks = parseEntries(entries, today),
                            ![p].parsed = parseEntries(entries, today),
                            ![p].i = 0,
                            ![p].trace = @ \o <<"fetchBoard", "parse">>]
    /\ UNCHANGED <<site, supabase, attacksTable, refresh_logs, runsStarted, op, arg, res>>

\* scrapeLeaderboard, lines 77-107: one iteration of the article loop, the
\* request ending in one of `outcomes`.
ScrapeArticleWith(p, outcomes) ==
    /\ run[p].pc = "articles"
    /\ run[p].i < Len(run[p].attacks)
    /\ LET i == run[p].i
           attack == run[p].attacks[i + 1]
       IN  IF Truthy(attack.source_url)
           THEN \E outcome \in outcomes :
                  LET articleDetails == scrapeArticleDetails(outcome)
                  IN  run' = [run EXCEPT
                            ![p].attacks[i + 1] = mergeDetails(attack, articleDetails),
                            ![p].i = i + 1,
                            ![p].fetches = Append(@, [i |-> i, url |-> attack.source_url,
                                                      kind |-> outcome.kind]),
                            ![p].trace = IF (i + 1) % PauseEvery = 0
                                         THEN @ \o <<"article", "pause">>
                                         ELSE Append(@, "article")]
           ELSE run' = [run EXCEPT ![p].i = i + 1]
    /\ UNCHANGED <<site, supabase, attacksTable, refresh_logs, runsStarted, op, arg, res>>

ScrapeArticle(p) == ScrapeArticleWith(p, ArticleOutcomes)

\* Variant of ProcessData for which one rejected entry fails the run.
ProcessData_rejectionFatal(p) ==
    /\ run[p].pc = "articles"
    /\ run[p].i = Len(run[p].attacks)
    /\ LET rawAttacks == run[p].attacks
       IN  IF Len(rawAttacks) < run[p].scanned \/ rawAttacks = <<>>
           THEN \E accepted \in StoreAnswers :
                  LET w == logRefresh(refresh_logs, supabase, accepted, "failed", Undef, Undef,
                                      "No data scraped from rekt.news")
                  IN  /\ refresh_logs' = w.logs
                      /\ run' = [run EXCEPT
                             ![p].pc = "catch",
                             ![p].rawAttacks = rawAttacks,
                             ![p].attacks = <<>>,
                             ![p].error = Err("Failed to scrape rekt.news",
                                              "Error: Failed to scrape rekt.news"),
                             ![p].logCalls = Append(@, LogCall("failed", Undef, Undef,
                                                 "No data scraped from rekt.news", accepted, w.id)),
                             ![p].trace = Append(@, "log")]
           ELSE /\ run' = [run EXCEPT ![p].pc = "filter",
                                      ![p].rawAttacks = rawAttacks,
                                      ![p].attacks = <<>>,
                                      ![p].processedAttacks = processAttackData(rawAttacks),
                                      ![p].trace = Append(@, "normalize")]
                /\ UNCHANGED refresh_logs
    /\ UNCHANGED <<site, supabase, attacksTable, runsStarted, op, arg, res>>

\* Variant of ProcessData without the two empty-list checks.
ProcessData_noEmptyCheck(p) ==
    /\ run[p].pc = "articles"
    /\ run[p].i = Len(run[p].attacks)
    /\ run' = [run EXCEPT ![p].pc = "filter",
                          ![p].rawAttacks = run[p].attacks,
                          ![p].attacks = <<>>,
                          ![p].processedAttacks = processAttackData(run[p].attacks),
                          ![p].trace = Append(@, "normalize")]
    /\ UNCHANGED <<site, supabase, attacksTable, refresh_logs, runsStarted, op, arg, res>>

\* Lines 105-121: scrapeLeaderboard returns; an empty result and an empty
\* normalized batch are logged as failed and thrown, otherwise the records
\* are normalized.
ProcessData(p) ==
    /\ run[p].pc = "articles"
    /\ run[p].i = Len(run[p].attacks)
    /\ LET rawAttacks == run[p].attacks
           processedAttacks == processAttackData(rawAttacks)
           abort(logText, errText, calls) ==
               \E accepted \in StoreAnswers :
                 LET w == logRefresh(refresh_logs, supabase, accepted, "failed", Undef, Undef, logText)
                 IN  /\ refresh_logs' = w.logs
                     /\ run' = [run EXCEPT
                            ![p].pc = "catch",
                            ![p].rawAttacks = rawAttacks,
                            ![p].attacks = <<>>,
                            ![p].error = Err(errText, "Error: " \o errText),
                            ![p].logCalls = Append(@, LogCall("failed", Undef, Undef, logText, accepted, w.id)),
                            ![p].trace = @ \o calls]
       IN  IF rawAttacks = <<>>
           THEN abort("No data scraped from rekt.news", "Failed to scrape rekt.news", <<"log">>)
           ELSE IF processedAttacks = <<>>
           THEN abort("Processing returned no valid attacks", "Processing failed",
                      <<"normalize", "log">>)
           ELSE /\ run' = [run EXCEPT ![p].pc = "filter",
                                      ![p].rawAttacks = rawAttacks,
                                      ![p].attacks = <<>>,
                                      ![p].processedAttacks = processedAttacks,
                                      ![p].trace = Append(@, "normalize")]
                /\ UNCHANGED refresh_logs
    /\ UNCHANGED <<site, supabase, attacksTable, runsStarted, op, arg, res>>

\* Variant of FilterDuplicates that sends the select a second time.
FilterDuplicates_readsTwice(p) ==
    /\ run[p].pc = "filter"
    /\ \E read \in {ReadOk(attacksTable), ReadError, ReadThrows} :
         LET f == filterDuplicates(run[p].processedAttacks, supabase, read)
         IN  run' = [run EXCEPT
                ![p].pc = IF f.unique = <<>> THEN "allDuplicates" ELSE "insert",
                ![p].readRows = IF issuesRead(run[p].processedAttacks, supabase) /\ read.kind = "ok"
                                THEN Cardinality(read.data) ELSE -1,
                ![p].unique = f.unique,
                ![p].duplicates = f.duplicates,
                ![p].trace = IF issuesRead(run[p].processedAttacks, supabase)
                             THEN @ \o <<"read", "read", "filter">> ELSE Append(@, "filter")]
    /\ UNCHANGED <<site, supabase, attacksTable, refresh_logs, runsStarted, op, arg, res>>

\* Variant of FilterDuplicates that, with a key configured, hands the
\* candidates the exact-key lookup let through to the language model.
FilterDuplicates_assisted(p) ==
    /\ run[p].pc = "filter"
    /\ \E read \in {ReadOk(attacksTable), ReadError, ReadThrows}, verdict \in BOOLEAN :
         LET f     == filterDuplicates(run[p].processedAttacks, supabase, read)
             asked == arg.OPENAI_API_KEY /\ f.unique # <<>>
             u     == IF asked /\ verdict THEN <<>> ELSE f.unique
             d     == IF asked /\ verdict THEN f.duplicates \o f.unique ELSE f.duplicates
         IN  run' = [run EXCEPT
                ![p].pc = IF u = <<>> THEN "allDuplicates" ELSE "insert",
                ![p].readRows = IF issuesRead(run[p].processedAttacks, supabase) /\ read.kind = "ok"
                                THEN Cardinality(read.data) ELSE -1,
                ![p].unique = u,
                ![p].duplicates = d,
                ![p].trace = (IF issuesRead(run[p].processedAttacks, supabase)
                              THEN @ \o <<"read">> ELSE @)
                             \o (IF asked THEN <<"llm">> ELSE <<>>) \o <<"filter">>]
    /\ UNCHANGED <<site, supabase, attacksTable, refresh_logs, runsStarted, op, arg, res>>

\* Line 126: filterDuplicates reads the existing keys and splits the batch.
FilterDuplicates(p) ==
    /\ run[p].pc = "filter"
    /\ \E read \in {ReadOk(attacksTable), ReadError, ReadThrows} :
         LET f == filterDuplicates(run[p].processedAttacks, supabase, read)
         IN  run' = [run EXCEPT
                ![p].pc = IF f.unique = <<>> THEN "allDuplicates" ELSE "insert",
                ![p].readRows = IF issuesRead(run[p].processedAttacks, supabase) /\ read.kind = "ok"
                                THEN Cardinality(read.data) ELSE -1,
                ![p].unique = f.unique,
                ![p].duplicates = f.duplicates,
                ![p].trace = IF issuesRead(run[p].processedAttacks, supabase)
                             THEN @ \o <<"read", "filter">> ELSE Append(@, "filter")]
    /\ UNCHANGED <<site, supabase, attacksTable, refresh_logs, runsStarted, op, arg, res>>

\* Variant of LogAllDuplicates that treats an empty unique set as a failure.
LogAllDuplicates_asFailure(p) ==
    /\ run[p].pc = "allDuplicates"
    /\ \E accepted \in StoreAnswers :
         LET w == logRefresh(refresh_logs, supabase, accepted, "failed", Undef, Undef,
                             "No new attacks")
         IN  /\ refresh_logs' = w.logs
             /\ run' = [run EXCEPT
                    ![p].pc = "catch",
                    ![p].error = Err("No new attacks", "Error: No new attacks"),
                    ![p].logCalls = Append(@, LogCall("failed", Undef, Undef, "No new attacks",
                                                      accepted, w.id)),
                    ![p].trace = Append(@, "log")]
    /\ UNCHANGED <<site, supabase, attacksTable, runsStarted, op, arg, res>>

\* Lines 134-141: every record was a duplicate.
LogAllDuplicates(p) ==
    /\ run[p].pc = "allDuplicates"
    /\ \E accepted \in StoreAnswers :
         LET fetched == Num(Len(run[p].rawAttacks))
             w == logRefresh(refresh_logs, supabase, accepted, "completed", fetched, Num(0), "")
         IN  /\ refresh_logs' = w.logs
             /\ run' = [run EXCEPT
                    ![p].pc = "done",
                    ![p].outcome = Returned("completed", Len(run[p].rawAttacks),
                                            Len(run[p].duplicates), 0, run[p].logId),
                    ![p].logCalls = Append(@, LogCall("completed", fetched, Num(0), "", accepted, w.id)),
                    ![p].trace = Append(@, "log")]
    /\ UNCHANGED <<site, supabase, attacksTable, runsStarted, op, arg, res>>

\* Lines 158-184 with insertAttacks: the merged batch is upserted.
InsertAttacks(p) ==
    /\ run[p].pc = "insert"
    /\ supabase
    /\ LET rows == cleanedData(run[p].unique)
       IN  /\ attacksTable' = upsert(attacksTable, rows)
           /\ run' = [run EXCEPT ![p].pc = "logCompleted",
                                 ![p].cleaned = rows,
                                 ![p].result = Len(rows),
                                 ![p].trace = @ \o <<"merge", "upsert">>]
    /\ UNCHANGED <<site, supabase, refresh_logs, runsStarted, op, arg, res>>

\* insertAttacks throws: the client is not configured, or the upsert
\* returns an error.
InsertAttacksFails(p) ==
    /\ run[p].pc = "insert"
    /\ LET rows == cleanedData(run[p].unique)
       IN  IF ~supabase
           THEN run' = [run EXCEPT ![p].pc = "catch",
                                   ![p].cleaned = rows,
                                   ![p].error = NotConfigured,
                                   ![p].trace = Append(@, "merge")]
           ELSE \E e \in UpsertErrors :
                  run' = [run EXCEPT ![p].pc = "catch",
                                     ![p].cleaned = rows,
                                     ![p].error = e,
                                     ![p].trace = @ \o <<"merge", "upsert">>]
    /\ UNCHANGED <<site, supabase, attacksTable, refresh_logs, runsStarted, op, arg, res>>

\* Lines 186-197: the completion log and the summary.
LogCompleted(p) ==
    /\ run[p].pc = "logCompleted"
    /\ \E accepted \in StoreAnswers :
         LET fetched == Num(Len(run[p].rawAttacks))
             inserted == Num(run[p].result)
             w == logRefresh(refresh_logs, supabase, accepted, "completed", fetched, inserted, "")
         IN  /\ refresh_logs' = w.logs
             /\ run' = [run EXCEPT
                    ![p].pc = "done",
                    ![p].outcome = Returned("completed", Len(run[p].rawAttacks),
                                            Len(run[p].duplicates), run[p].result, run[p].logId),
                    ![p].logCalls = Append(@, LogCall("completed", fetched, inserted, "", accepted, w.id)),
                    ![p].trace = Append(@, "log")]
    /\ UNCHANGED <<site, supabase, attacksTable, runsStarted, op, arg, res>>

\* Variant of Catch that goes on only once the store has accepted the
\* 'failed' log row.
Catch_awaitsAccepted(p) ==
    /\ run[p].pc = "catch"
    /\ \E accepted \in StoreAnswers \ {FALSE} :
         LET text == errorText(run[p].error)
             w == logRefresh(refresh_logs, supabase, accepted, "failed", Undef, Undef, text)
         IN  /\ refresh_logs' = w.logs
             /\ run' = [run EXCEPT
                    ![p].pc = "done",
                    ![p].outcome = Thrown(run[p].error),
                    ![p].logCalls = Append(@, LogCall("failed", Undef, Undef, text, accepted, w.id)),
                    ![p].trace = Append(@, "log")]
    /\ UNCHANGED <<site, supabase, attacksTable, runsStarted, op, arg, res>>

\* Lines 198-201: the catch block logs the error text and rethrows.
Catch(p) ==
    /\ run[p].pc = "catch"
    /\ \E accepted \in StoreAnswers :
         LET text == errorText(run[p].error)
             w == logRefresh(refresh_logs, supabase, accepted, "failed", Undef, Undef, text)
         IN  /\ refresh_logs' = w.logs
             /\ run' = [run EXCEPT
                    ![p].pc = "done",
                    ![p].outcome = Thrown(run[p].error),
                    ![p].logCalls = Append(@, LogCall("failed", Undef, Undef, text, accepted, w.id)),
                    ![p].trace = Append(@, "log")]
    /\ UNCHANGED <<site, supabase, attacksTable, runsStarted, op, arg, res>>

vars == <<site, supabase, attacksTable, refresh_logs, run, runsStarted, op, arg, res>>

HarnessIdle == op = "none" /\ arg = <<>> /\ res = <<>>

\* One caller: the runs follow one another.
Init ==
    /\ site = Feeds
    /\ supabase \in BOOLEAN
    /\ attacksTable = {}
    /\ refresh_logs = <<>>
    /\ run = [p \in {1} |-> IdleRun]
    /\ runsStarted = 0
    /\ HarnessIdle

Next ==
    \/ \E p \in Procs : StartRun(p)
    \/ \E p \in Procs : FetchLeaderboardFails(p)
    \/ \E p \in Procs : FetchLeaderboard(p)
    \/ \E p \in Procs : ScrapeArticle(p)
    \/ \E p \in Procs : ProcessData(p)
    \/ \E p \in Procs : FilterDuplicates(p)
    \/ \E p \in Procs : LogAllDuplicates(p)
    \/ \E p \in Procs : InsertAttacks(p)
    \/ \E p \in Procs : InsertAttacksFails(p)
    \/ \E p \in Procs : LogCompleted(p)
    \/ \E p \in Procs : Catch(p)

Spec == Init /\ [][Next]_vars

(***************************************************************************)
(* Inputs of the Normalizer harness                                        *)
(***************************************************************************)
NormNames ==
    {Undef, Str(<<>>), Str(<<" ">>), Str(<<" ", " ">>),
     Str(<<"A", "b">>), Str(<<" ", "A", "b", " ">>)}

NormAliases == {Undef, Str(<<"C">>)}

NormAmounts ==
    {Undef, JNull, NaN, Num(0), Num(-5), Num(100),
     Str(<<>>), Str(<<"a", "b", "c">>), Str(<<"0">>), Str(<<"-", "3">>),
     Str(<<"$", "1", ",", "2", "3", "4">>), Str(<<"1", "2", "a", "b">>),
     Str(<<" ", "7", " ">>), Str(<<"$", "0">>)}

Months == {<<"0", "3">>, <<"3">>, <<"1", "2">>}
Days == {<<"0", "4">>, <<"4">>, <<"3", "1">>}
Years == {<<"2", "0", "2", "3">>, <<"1", "9", "8", "5">>, <<"2", "3">>, <<"8", "5">>,
          <<"4", "9">>, <<"5", "0">>, <<"0", "0">>, <<"2", "0", "2">>}
IsoDates == {<<"2", "0", "2", "3", "-", "0", "3", "-", "0", "4">>,
             <<"1", "9", "8", "5", "-", "1", "2", "-", "3", "1">>}
Suffixes == {<<>>, <<"T", "0", "0">>, <<" ">>}

NormDates ==
    {Undef, Str(<<>>), Str(<<"a", "b">>), Str(<<"2", "0", "2", "3", "-", "3", "-", "4">>)}
    \cup {Str(m \o <<"/">> \o d \o <<"/">> \o y \o x) :
              m \in Months, d \in Days, y \in Years, x \in {<<>>, <<"T", "0", "0">>}}
    \cup {Str(i \o x) : i \in IsoDates, x \in Suffixes}

\* attack_type, description, source_url, blockchain of an input
NormRest ==
    {[attack_type |-> Undef, description |-> Undef, source_url |-> Undef, blockchain |-> Undef],
     [attack_type |-> Str(<<"U", "n", "k", "n", "o", "w", "n">>), description |-> Str(<<"d">>),
      source_url |-> Str(<<"/", "x">>), blockchain |-> Str(<<" ", "B", " ">>)],
     [attack_type |-> Str(<<"m", "e", "v">>), description |-> Str(<<" ">>),
      source_url |-> Undef, blockchain |-> Num(1)]}

NormInputs ==
    {[protocol_name |-> nm, protocol |-> al, attack_date |-> dt, loss_amount_usd |-> am,
      attack_type |-> r.attack_type, description |-> r.description,
      source_url |-> r.source_url, url |-> Undef, blockchain |-> r.blockchain] :
        nm \in NormNames, al \in NormAliases, dt \in NormDates, am \in NormAmounts,
        r \in NormRest}

(***************************************************************************)
(* Normalizer harness: one input, one application                          *)
(***************************************************************************)
PipelineIdle ==
    /\ site = Feeds
    /\ supabase = TRUE
    /\ attacksTable = {}
    /\ refresh_logs = <<>>
    /\ run = [p \in {1} |-> IdleRun]
    /\ runsStarted = 0

pipelineVars == <<site, supabase, attacksTable, refresh_logs, run, runsStarted>>

InitNorm ==
    /\ PipelineIdle
    /\ op = "none"
    /\ arg \in NormInputs
    /\ res = NoRecord

CallValidateAttack ==
    /\ op = "none"
    /\ op' = "validateAttack"
    /\ res' = validateAttack(arg)
    /\ UNCHANGED <<arg, pipelineVars>>

CallBasicProcess ==
    /\ op = "none"
    /\ op' = "basicProcess"
    /\ res' = basicProcess(<<arg>>)
    /\ UNCHANGED <<arg, pipelineVars>>

NextNorm == CallValidateAttack \/ CallBasicProcess

SpecNorm == InitNorm /\ [][NextNorm]_vars

\* The records the Normalizer emitted in this state.
Emitted ==
    CASE op = "validateAttack" -> IF res = NoRecord THEN {} ELSE {res}
      [] op = "basicProcess" -> {res[i] : i \in 1..Len(res)}
      [] OTHER -> {}

IsIsoDate(v) == v.t = "string" /\ Len(v.s) = 10 /\ MatchYMD(v.s)

\* C7: every FinalizedAttack the Normalizer emits has a protocol_name that is
\* non-empty after trimming and a loss_amount_usd > 0 (stated as the claim;
\* the code emits an empty name for a white-space-only input name).
C7_EmittedNameAndAmount ==
    \A r \in Emitted :
        /\ trim(r.protocol_name) # <<>>
        /\ r.loss_amount_usd.t = "number" /\ r.loss_amount_usd.n > 0

\* C9: every FinalizedAttack the Normalizer emits has an attack_date of the
\* exact shape YYYY-MM-DD (stated as the claim; the code passes through any
\* date value that matches none of its three patterns).
C9_EmittedDateIsIso ==
    \A r \in Emitted : IsIsoDate(r.attack_date)

\* The date a two-digit-year input stands for, read off by position.
ExpectedFromMDY2(d) ==
    (IF 10 * DigitVal(d[7]) + DigitVal(d[8]) < 50 THEN <<"2", "0">> ELSE <<"1", "9">>)
        \o <<d[7], d[8], "-", d[1], d[2], "-", d[4], d[5]>>

ExpectedFromMDY4(d) == <<d[7], d[8], d[9], d[10], "-", d[1], d[2], "-", d[4], d[5]>>

D_03_04_2023 == <<"0", "3", "/", "0", "4", "/", "2", "0", "2", "3">>
D_03_04_23 == <<"0", "3", "/", "0", "4", "/", "2", "3">>
D_03_04_85 == <<"0", "3", "/", "0", "4", "/", "8", "5">>
D_2023_03_04 == <<"2", "0", "2", "3", "-", "0", "3", "-", "0", "4">>
D_1985_03_04 == <<"1", "9", "8", "5", "-", "0", "3", "-", "0", "4">>

\* C8: the date coercion tries YYYY-MM-DD, MM/DD/YYYY, MM/DD/YY in that order
\* and the first match wins: a YYYY-MM-DD input is returned unchanged,
\* MM/DD/YYYY becomes YYYY-MM-DD, MM/DD/YY becomes 20YY-MM-DD when YY < 50 and
\* 19YY-MM-DD otherwise; coercing the result again changes nothing.
C8_DateCoercion ==
    \A r \in Emitted :
        LET d == arg.attack_date.s
            out == r.attack_date
        IN  arg.attack_date.t = "string" =>
              /\ MatchYMD(d) => out = Str(d)
              /\ (~MatchYMD(d) /\ MatchMDY4(d)) => out = Str(ExpectedFromMDY4(d))
              /\ (~MatchYMD(d) /\ ~MatchMDY4(d) /\ MatchMDY2(d)) => out = Str(ExpectedFromMDY2(d))
              /\ coerceDate(out) = out
              /\ d = D_03_04_2023 => out = Str(D_2023_03_04)
              /\ d = D_03_04_23 => out = Str(D_2023_03_04)
              /\ d = D_03_04_85 => out = Str(D_1985_03_04)

C8_Witness ==
    /\ op = "validateAttack"
    /\ res # NoRecord
    /\ arg.attack_date = Str(D_03_04_85)
    /\ res.attack_date = Str(D_1985_03_04)

(***************************************************************************)
(* Properties of the ingestion run                                         *)
(***************************************************************************)
Done(p) == run[p].pc = "done"

LastLogCall(p) == run[p].logCalls[Len(run[p].logCalls)]

\* The ids of the log rows run p wrote.
WrittenIds(p) == {run[p].logCalls[k].id : k \in 1..Len(run[p].logCalls)} \ {0}

Called(p, what) == \E k \in 1..Len(run[p].trace) : run[p].trace[k] = what

\* The text of an error: its message, or its string form when it has none.
TextOf(e) == IF e.message = "" THEN e.str ELSE e.message

\* C1: once a run has finished, the log entry it inserted at its start (the
\* one whose id it returns as job_id) has been updated to completed or
\* failed, and no entry the run created still has status running (stated
\* as the claim; the code inserts a new row at every logRefresh call and
\* never updates one).
C1_RunningEntryUpdated ==
    \A p \in Procs :
        Done(p) =>
            /\ \A id \in WrittenIds(p) : refresh_logs[id].status # "running"
            /\ run[p].logId # 0 => refresh_logs[run[p].logId].status \in {"completed", "failed"}

\* C2 as claimed: whenever a run that wrote its start-of-run entry ends by
\* throwing, a failed entry carrying the error's text has been written to
\* the log store.
C2_FailedEntryWritten ==
    \A p \in Procs :
        (Done(p) /\ run[p].outcome.kind = "thrown" /\ run[p].logId # 0) =>
            \E id \in WrittenIds(p) :
                /\ refresh_logs[id].status = "failed"
                /\ refresh_logs[id].error_message = TextOf(run[p].outcome.error)

\* C2 as amended: whenever a run ends by throwing, its last logRefresh call
\* is ('failed', text of the thrown error), made before the error reaches
\* the caller, and the failed entry with that text is in the log store
\* whenever the client is configured and the store accepted that insert.
C2_FailedLogAttempted ==
    \A p \in Procs :
        (Done(p) /\ run[p].outcome.kind = "thrown") =>
            LET c == LastLogCall(p)
            IN  /\ c.status = "failed"
                /\ c.error_message = TextOf(run[p].outcome.error)
                /\ (supabase /\ c.accepted) =>
                     /\ c.id \in 1..Len(refresh_logs)
                     /\ refresh_logs[c.id].status = "failed"
                     /\ refresh_logs[c.id].error_message = TextOf(run[p].outcome.error)

\* The upsert itself failed, with an error that has no message text, and the
\* failed entry was written.
C2_Witness ==
    \E p \in Procs :
        /\ Done(p) /\ run[p].outcome.kind = "thrown"
        /\ Called(p, "upsert")
        /\ run[p].outcome.error.message = ""
        /\ LastLogCall(p).id # 0
        /\ refresh_logs[LastLogCall(p).id].error_message = "[object Object]"

\* The identity the spec gives a record: (name lower-cased and trimmed, date).
NaturalKey(r) == <<trim(toLowerCase(r.protocol_name)), r.attack_date>>

\* C3: no two records of the store share the composite key (stated as the
\* claim; a run whose read of existing keys failed upserts a record that
\* differs from a stored one in letter case only).
C3_NoSharedKey ==
    \A a, b \in attacksTable : a # b => NaturalKey(a) # NaturalKey(b)

\* A run that returned after upserting.
CompletedWithNew(p) ==
    Done(p) /\ run[p].outcome.kind = "returned" /\ Called(p, "upsert")

RowOf(u) ==
    [protocol_name |-> u.protocol_name, attack_date |-> u.attack_date,
     attack_type |-> u.attack_type, loss_amount_usd |-> u.loss_amount_usd]

CoreOf(row) ==
    [protocol_name |-> row.protocol_name, attack_date |-> row.attack_date,
     attack_type |-> row.attack_type, loss_amount_usd |-> row.loss_amount_usd]

\* C4 as claimed: records_fetched is the number of entries the scanner
\* returned, records_inserted the number of rows upserted, and the upsert
\* gets exactly the finalized records that were not duplicates.
C4_CountsAsClaimed ==
    \A p \in Procs :
        CompletedWithNew(p) =>
            LET c == LastLogCall(p)
            IN  /\ c.status = "completed"
                /\ c.records_fetched = Num(run[p].scanned)
                /\ c.records_inserted = Num(Len(run[p].cleaned))
                /\ Len(run[p].cleaned) = Len(run[p].unique)
                /\ \A k \in 1..Len(run[p].unique) :
                       CoreOf(run[p].cleaned[k]) = RowOf(run[p].unique[k])

\* C4 as amended: records_fetched is the number of entries the parser
\* accepted (the length of the scraped list), records_inserted the number of
\* rows upserted, and the upsert gets the non-duplicate finalized records
\* after the within-batch merge: one row per composite key, each row one of
\* the non-duplicates, every non-duplicate's key present.
C4_Counts ==
    \A p \in Procs :
        CompletedWithNew(p) =>
            LET c == LastLogCall(p)
                rows == run[p].cleaned
                uniq == run[p].unique
            IN  /\ c.status = "completed"
                /\ c.records_fetched = Num(Len(run[p].rawAttacks))
                /\ Len(run[p].rawAttacks) <= run[p].scanned
                /\ c.records_inserted = Num(Len(rows))
                /\ run[p].outcome.inserted = Len(rows)
                /\ (supabase /\ c.accepted) => /\ refresh_logs[c.id].records_fetched = c.records_fetched
                                               /\ refresh_logs[c.id].records_inserted = c.records_inserted
                /\ \A k \in 1..Len(rows) : \E j \in 1..Len(uniq) : CoreOf(rows[k]) = RowOf(uniq[j])
                /\ \A j \in 1..Len(uniq) : \E k \in 1..Len(rows) : NaturalKey(rows[k]) = NaturalKey(uniq[j])
                /\ \A k, l \in 1..Len(rows) : k # l => NaturalKey(rows[k]) # NaturalKey(rows[l])
                /\ \A j \in 1..Len(uniq) :
                       \A d \in 1..Len(run[p].duplicates) : uniq[j] # run[p].duplicates[d]

\* Three entries scanned would need MaxEntries = 3; here: two scanned, one
\* rejected by the parser, one new record upserted and logged.
C4_Witness ==
    \E p \in Procs :
        /\ CompletedWithNew(p)
        /\ run[p].scanned = 2
        /\ Len(run[p].rawAttacks) = 1
        /\ Len(run[p].cleaned) = 1
        /\ LastLogCall(p).id # 0
        /\ refresh_logs[LastLogCall(p).id].records_fetched = Num(1)

\* C5: when the page yields no candidate the run throws, its log ends in
\* status failed with a non-empty message (the last logRefresh call, and the
\* row it wrote when the store took it), and neither the read of existing
\* keys nor the upsert is made.
C5_EmptyScrapeAborts ==
    \A p \in Procs :
        (Done(p) /\ run[p].scanned >= 0 /\ run[p].rawAttacks = <<>>) =>
            LET c == LastLogCall(p)
            IN  /\ run[p].outcome.kind = "thrown"
                /\ c.status = "failed"
                /\ c.error_message # ""
                /\ c.id # 0 => /\ refresh_logs[c.id].status = "failed"
                               /\ refresh_logs[c.id].error_message # ""
                /\ ~Called(p, "read")
                /\ ~Called(p, "upsert")

C5_Witness ==
    \E p \in Procs :
        /\ Done(p) /\ run[p].scanned = 0
        /\ run[p].outcome.kind = "thrown"
        /\ LastLogCall(p).id # 0
        /\ refresh_logs[LastLogCall(p).id].status = "failed"

\* C6: when every finalized record is a duplicate of a persisted one the run
\* returns status completed with its summary, logs completed with
\* records_inserted = 0, makes no failed log call and no upsert.
C6_AllDuplicatesCompletes ==
    \A p \in Procs :
        (Done(p) /\ run[p].processedAttacks # <<>> /\ run[p].unique = <<>>) =>
            LET c == LastLogCall(p)
            IN  /\ run[p].outcome.kind = "returned"
                /\ run[p].outcome.status = "completed"
                /\ run[p].outcome.inserted = 0
                /\ run[p].outcome.duplicates = Len(run[p].processedAttacks)
                /\ c.status = "completed"
                /\ c.records_inserted = Num(0)
                /\ c.id # 0 => /\ refresh_logs[c.id].status = "completed"
                               /\ refresh_logs[c.id].records_inserted = Num(0)
                /\ \A k \in 1..Len(run[p].logCalls) : run[p].logCalls[k].status # "failed"
                /\ \A id \in WrittenIds(p) : refresh_logs[id].status # "failed"
                /\ ~Called(p, "upsert")

C6_Witness ==
    \E p \in Procs :
        /\ Done(p) /\ run[p].processedAttacks # <<>> /\ run[p].unique = <<>>
        /\ Len(run[p].duplicates) = 2
        /\ run[p].outcome.kind = "returned"
        /\ LastLogCall(p).id # 0

(***************************************************************************)
(* Duplicate Resolver harness: one batch, one store content, one call      *)
(***************************************************************************)
MaxBatch == 2

DupDates == {Str(<<"2", "0", "2", "0", "-", "1", "0", "-", "2", "6">>), Str(<<"2", "0", "2", "0", "-", "1", "0", "-", "2", "7">>)}

\* Candidate names as the Normalizer and as other callers can give them.
DupNames == {<<"A", "b">>, <<"A", "B">>, <<" ", "a", "b", " ">>, <<"C", "u">>}

DupCandidates == {[protocol_name |-> nm, attack_date |-> dt] : nm \in DupNames, dt \in DupDates}

\* (protocol_name, attack_date) pairs the table can hold.
ExistingPairs ==
    {[protocol_name |-> <<"a", "b">>, attack_date |-> Str(<<"2", "0", "2", "0", "-", "1", "0", "-", "2", "6">>)],
     [protocol_name |-> <<"A", "b">>, attack_date |-> Str(<<"2", "0", "2", "0", "-", "1", "0", "-", "2", "7">>)],
     [protocol_name |-> <<"C", "U", " ">>, attack_date |-> Str(<<"2", "0", "2", "0", "-", "1", "0", "-", "2", "7">>)]}

InitDup ==
    /\ PipelineIdle
    /\ op = "none"
    /\ \E newAttacks \in SeqsUpTo(DupCandidates, MaxBatch), existing \in SUBSET ExistingPairs,
          kind \in {"ok", "error", "throws"}, configured \in BOOLEAN :
         arg = [newAttacks |-> newAttacks, configured |-> configured,
                read |-> IF kind = "ok" THEN ReadOk(existing)
                         ELSE IF kind = "error" THEN ReadError ELSE ReadThrows]
    /\ res = [unique |-> <<>>, duplicates |-> <<>>]

CallFilterDuplicates ==
    /\ op = "none"
    /\ op' = "filterDuplicates"
    /\ res' = filterDuplicates(arg.newAttacks, arg.configured, arg.read)
    /\ UNCHANGED <<arg, pipelineVars>>

NextDup == CallFilterDuplicates

SpecDup == InitDup /\ [][NextDup]_vars

\* Number of positions of sequence q that hold x.
Occurrences(q, x) == Cardinality({k \in 1..Len(q) : q[k] = x})

SameNaturalKey(c, e) ==
    /\ trim(toLowerCase(c.protocol_name)) = trim(toLowerCase(e.protocol_name))
    /\ c.attack_date = e.attack_date

\* C10: after a successful read of the existing pairs, a candidate is in the
\* duplicate set exactly when its (lower-cased, trimmed name, date) equals
\* that of some existing pair, and in the unique set otherwise; letter case
\* and surrounding white space of the name do not matter, the date does.
C10_FastPathExactKey ==
    (op = "filterDuplicates" /\ arg.configured /\ arg.read.kind = "ok") =>
        \A k \in 1..Len(arg.newAttacks) :
            LET c == arg.newAttacks[k]
                known == \E e \in arg.read.data : SameNaturalKey(c, e)
            IN  /\ known => /\ Occurrences(res.duplicates, c) = Occurrences(arg.newAttacks, c)
                            /\ Occurrences(res.unique, c) = 0
                /\ ~known => /\ Occurrences(res.unique, c) = Occurrences(arg.newAttacks, c)
                             /\ Occurrences(res.duplicates, c) = 0

\* "AB" on the stored date of "ab" is a duplicate, "AB" on another date is not.
C10_Witness ==
    /\ op = "filterDuplicates" /\ arg.configured /\ arg.read.kind = "ok"
    /\ arg.read.data = {[protocol_name |-> <<"a", "b">>, attack_date |-> Str(<<"2", "0", "2", "0", "-", "1", "0", "-", "2", "6">>)]}
    /\ res.duplicates = <<[protocol_name |-> <<"A", "B">>, attack_date |-> Str(<<"2", "0", "2", "0", "-", "1", "0", "-", "2", "6">>)]>>
    /\ res.unique = <<[protocol_name |-> <<"A", "B">>, attack_date |-> Str(<<"2", "0", "2", "0", "-", "1", "0", "-", "2", "7">>)]>>

(***************************************************************************)
(* Within-batch merge harness: one list of non-duplicates, one merge       *)
(***************************************************************************)
\* Records as filterDuplicates hands them on: description and source_url
\* present or not.
MergeCandidates ==
    {[protocol_name |-> nm, attack_date |-> dt, attack_type |-> <<"m", "e", "v">>,
      loss_amount_usd |-> Num(5), description |-> ds, source_url |-> su,
      blockchain |-> Undef, data_source |-> "rekt"] :
        nm \in {<<"A", "b">>, <<"A", "B">>}, dt \in DupDates, ds \in {<<>>, <<"d">>},
        su \in {Undef, Str(<<"/", "x">>)}}

InitMerge ==
    /\ PipelineIdle
    /\ op = "none"
    /\ arg \in SeqsUpTo(MergeCandidates, MaxBatch)
    /\ res = <<>>

CallCleanedData ==
    /\ op = "none"
    /\ op' = "cleanedData"
    /\ res' = cleanedData(arg)
    /\ UNCHANGED <<arg, pipelineVars>>

NextMerge == CallCleanedData

SpecMerge == InitMerge /\ [][NextMerge]_vars

\* The candidates of the batch that share the key of record r.
SharingKey(r) == {arg[k] : k \in {j \in 1..Len(arg) : NaturalKey(arg[j]) = NaturalKey(r)}}

Bool(b) == [t |-> "boolean", s |-> <<>>, n |-> IF b THEN 1 ELSE 0]

\* existing.protocol_name.toLowerCase().trim() === newAttack.protocol_name
\* .toLowerCase().trim() && existing.attack_date === newAttack.attack_date
matches(existing, newAttack) ==
    /\ trim(toLowerCase(existing.protocol_name)) = trim(toLowerCase(newAttack.protocol_name))
    /\ existing.attack_date = newAttack.attack_date

\* Variant of basicDuplicateCheck that compares the names as stored.
basicDuplicateCheck_caseSensitive(newAttack, existingAttacks) ==
    \E existing \in existingAttacks :
        /\ existing.protocol_name = newAttack.protocol_name
        /\ existing.attack_date = newAttack.attack_date

\* existingAttacks.some(...): the list is used for membership tests only and
\* is kept as the set of its elements.
basicDuplicateCheck(newAttack, existingAttacks) ==
    \E existing \in existingAttacks : matches(existing, newAttack)

\* Variant of exactMatch that compares the names as stored.
exactMatch_caseSensitive(newAttack, existingAttacks) ==
    \E existing \in existingAttacks :
        /\ existing.protocol_name = newAttack.protocol_name
        /\ existing.attack_date = newAttack.attack_date

\* existingAttacks.find(...) of lines 38-42, as a truth value.
exactMatch(newAttack, existingAttacks) ==
    \E existing \in existingAttacks : matches(existing, newAttack)

\* What JSON.parse makes of the model's text, after the code fences are cut.
SyntaxError == [t |-> "SyntaxError"]
ParsedNull == [t |-> "null"]
ParsedObject(is_duplicate) == [t |-> "object", is_duplicate |-> is_duplicate]

\* choices[0].message.content: absent, or a text with what it parses to.
NoContent == [t |-> "undefined"]
Content(parsed) == [t |-> "string", parsed |-> parsed]

\* What the request to the completions endpoint can come back with.
Reply(fetch, ok, json, choices) == [fetch |-> fetch, ok |-> ok, json |-> json, choices |-> choices]

Verdicts == {Bool(TRUE), Bool(FALSE), Str(<<"t", "r", "u", "e">>), Num(1), Undef}

LlmReplies ==
    {Reply("throws", FALSE, "throws", <<>>),     \* transport error
     Reply("ok", FALSE, "ok", <<>>),             \* HTTP status not OK
     Reply("ok", TRUE, "throws", <<>>),          \* body is not JSON
     Reply("ok", TRUE, "ok", <<>>),              \* no choices
     Reply("ok", TRUE, "ok", <<NoContent>>),
     Reply("ok", TRUE, "ok", <<Content(SyntaxError)>>),
     Reply("ok", TRUE, "ok", <<Content(ParsedNull)>>)}
    \cup {Reply("ok", TRUE, "ok", <<Content(ParsedObject(v))>>) : v \in Verdicts}

\* What isDuplicate gives its caller, and the requests it sent on the way.
Answered(value, requests) == [kind |-> "returned", value |-> value, requests |-> requests]

isDuplicate(newAttack, existingAttacks, apiKey, reply) ==
    LET fallback == Answered(basicDuplicateCheck(newAttack, existingAttacks), 1)
    IN  IF ~apiKey THEN Answered(basicDuplicateCheck(newAttack, existingAttacks), 0)
        ELSE IF existingAttacks = {} THEN Answered(FALSE, 0)
        ELSE IF exactMatch(newAttack, existingAttacks) THEN Answered(TRUE, 0)
        ELSE IF reply.fetch = "throws" THEN fallback          \* outer catch
        ELSE IF ~reply.ok THEN fallback                       \* lines 135-139
        ELSE IF reply.json = "throws" THEN fallback           \* outer catch
        ELSE IF reply.choices = <<>> THEN fallback            \* TypeError, outer catch
        ELSE LET content == reply.choices[1]
             IN  IF content.t # "string" THEN fallback        \* TypeError, inner catch
                 ELSE IF content.parsed.t = "SyntaxError" THEN fallback
                 ELSE IF content.parsed.t = "null" THEN fallback   \* TypeError, outer catch
                 ELSE Answered(content.parsed.is_duplicate = Bool(TRUE), 1)

InitAssist ==
    /\ PipelineIdle
    /\ op = "none"
    /\ \E newAttack \in DupCandidates, existingAttacks \in SUBSET ExistingPairs,
          apiKey \in BOOLEAN, reply \in LlmReplies :
         arg = [newAttack |-> newAttack, existingAttacks |-> existingAttacks,
                apiKey |-> apiKey, reply |-> reply]
    /\ res = <<>>

CallIsDuplicate ==
    /\ op = "none"
    /\ op' = "isDuplicate"
    /\ res' = isDuplicate(arg.newAttack, arg.existingAttacks, arg.apiKey, arg.reply)
    /\ UNCHANGED <<arg, pipelineVars>>

NextAssist == CallIsDuplicate

SpecAssist == InitAssist /\ [][NextAssist]_vars

\* TRUE when the reply carries no usable verdict.
CallFailed(reply) ==
    \/ reply.fetch = "throws" \/ ~reply.ok \/ reply.json = "throws" \/ reply.choices = <<>>
    \/ reply.choices[1].t # "string"
    \/ reply.choices[1].parsed.t # "object"
    \/ reply.choices[1].parsed.is_duplicate.t # "boolean"

KeyKnown == \E e \in arg.existingAttacks : SameNaturalKey(arg.newAttack, e)

\* C12: isDuplicate always returns, and whenever the credentials are missing
\* or the language-model call fails (transport error, status not OK, body or
\* content that is not JSON, content or verdict missing) its result is the
\* exact-match check on (lower-cased trimmed name, date) against the
\* existing records.
C12_DegradesToExactMatch ==
    op = "isDuplicate" =>
        /\ res.kind = "returned"
        /\ (~arg.apiKey \/ CallFailed(arg.reply)) => (res.value <=> KeyKnown)

\* The request was sent and met a transport error: the answer is that of
\* the exact-match check.
C12_Witness ==
    /\ op = "isDuplicate"
    /\ arg.apiKey /\ arg.reply.fetch = "throws" /\ res.requests = 1
    /\ arg.existingAttacks # {} /\ ~res.value

\* C20: whenever an existing record has the candidate's key the result is
\* true and no request is sent to the language-model service, whatever the
\* service would have answered; when there is no existing record the result
\* is false and no request is sent.
C20_ExactMatchShortCircuits ==
    op = "isDuplicate" =>
        /\ KeyKnown => (res.value /\ res.requests = 0)
        /\ arg.existingAttacks = {} => (~res.value /\ res.requests = 0)

\* "AB" against stored "ab" with credentials and a service that would say
\* "not a duplicate": true, nothing sent.
C20_Witness ==
    /\ op = "isDuplicate" /\ arg.apiKey
    /\ arg.newAttack.protocol_name = <<"A", "B">>
    /\ arg.existingAttacks = {[protocol_name |-> <<"a", "b">>, attack_date |-> Str(<<"2", "0", "2", "0", "-", "1", "0", "-", "2", "6">>)]}
    /\ arg.reply.choices = <<Content(ParsedObject(Bool(FALSE)))>>
    /\ res.value /\ res.requests = 0

(***************************************************************************)
(* Properties of the stages of one run                                     *)
(***************************************************************************)
\* The batch of run p as it stands: the scraper's list while the article
\* loop runs, rawAttacks once scrapeLeaderboard has returned.
Batch(p) == IF run[p].pc = "articles" THEN run[p].attacks ELSE run[p].rawAttacks

InsertErrors == UpsertErrors \cup {NotConfigured}

\* C13: an article request that fails (throws, or status not OK) is not
\* fatal and not repeated: the record stays in the batch with exactly the
\* fields the parser gave it, no record's page is requested twice, the loop
\* raises no error, and a run that requested articles can only fail at the
\* upsert.
C13_ArticleFailureNotFatal ==
    \A p \in Procs :
        LET fetches == run[p].fetches
        IN  fetches # <<>> =>
              /\ Len(Batch(p)) = Len(run[p].parsed)
              /\ \A k \in 1..Len(fetches) :
                     fetches[k].kind # "page" =>
                         Batch(p)[fetches[k].i + 1] = run[p].parsed[fetches[k].i + 1]
              /\ \A k, l \in 1..Len(fetches) : k # l => fetches[k].i # fetches[l].i
              /\ run[p].pc = "articles" => run[p].error = NoError
              /\ run[p].outcome.kind = "thrown" => run[p].outcome.error \in InsertErrors

\* A run whose only article request threw went on and stored the record.
C13_Witness ==
    \E p \in Procs :
        /\ Done(p) /\ run[p].outcome.kind = "returned"
        /\ Len(run[p].fetches) = 1 /\ run[p].fetches[1].kind = "throws"
        /\ run[p].outcome.inserted = 1
        /\ Cardinality(attacksTable) = 1

\* The page was fetched and its entries extracted.
Scanned(p) == Done(p) /\ run[p].scanned > 0

\* C14 as claimed: whatever the parser and the Normalizer reject, a run whose
\* page was fetched and held entries goes on to duplicate resolution and
\* does not end failed.
C14_OnlyFetchIsFatal ==
    \A p \in Procs :
        Scanned(p) =>
            /\ Called(p, "filter")
            /\ run[p].outcome.kind = "returned"
            /\ LastLogCall(p).status # "failed"

\* C14 as amended: rejected entries are dropped and the run goes on to
\* duplicate resolution with the records that are left, as long as one is
\* left; when none is left after parsing, or after normalization, the run
\* ends failed; a run that reached duplicate resolution ends failed only
\* when insertAttacks throws.
C14_PerItemRecoverable ==
    \A p \in Procs :
        Scanned(p) =>
            /\ Len(run[p].rawAttacks) <= run[p].scanned
            /\ run[p].processedAttacks = processAttackData(run[p].rawAttacks)
            /\ run[p].processedAttacks # <<>> =>
                   /\ Called(p, "filter")
                   /\ Len(run[p].unique) + Len(run[p].duplicates) = Len(run[p].processedAttacks)
                   /\ run[p].outcome.kind = "thrown" => run[p].outcome.error \in InsertErrors
                   /\ run[p].outcome.kind = "returned" => LastLogCall(p).status = "completed"
            /\ run[p].processedAttacks = <<>> =>
                   /\ ~Called(p, "filter")
                   /\ run[p].outcome.kind = "thrown"
                   /\ LastLogCall(p).status = "failed"
                   /\ run[p].outcome.error.message
                          \in {"Failed to scrape rekt.news", "Processing failed"}

\* Two entries scanned, one rejected by the parser, the run completed.
C14_Witness ==
    \E p \in Procs :
        /\ Scanned(p) /\ run[p].scanned = 2 /\ Len(run[p].rawAttacks) = 1
        /\ Called(p, "filter")
        /\ run[p].outcome.kind = "returned"
        /\ LastLogCall(p).status = "completed"

\* C15: for every run that ends by throwing, every failed entry the run
\* wrote to the log carries the message of the error the caller receives
\* (stated as the claim; the empty-batch paths log one text and throw
\* another, and an error without message is logged by its string form).
C15_LoggedTextIsThrownMessage ==
    \A p \in Procs :
        (Done(p) /\ run[p].outcome.kind = "thrown") =>
            \A id \in WrittenIds(p) :
                refresh_logs[id].status = "failed" =>
                    refresh_logs[id].error_message = run[p].outcome.error.message

(***************************************************************************)
(* Two invocations of scrapeRektLeaderboard at the same time               *)
(***************************************************************************)
\* The page both invocations see.
SameFeed == {<<EntryAB>>}

InitConc ==
    /\ site = SameFeed
    /\ supabase = TRUE
    /\ attacksTable = {}
    /\ refresh_logs = <<>>
    /\ run = [p \in {1, 2} |-> IdleRun]
    /\ runsStarted = 0
    /\ HarnessIdle

SpecConc == InitConc /\ [][Next]_vars

\* Run p read the existing keys while the table was empty, found its record
\* new and its upsert returned.
WroteAfterEmptyRead(p) ==
    /\ run[p].readRows = 0
    /\ Len(run[p].unique) = 1
    /\ run[p].pc \in {"logCompleted", "done"}
    /\ run[p].result = 1

BothWrote == \A p \in Procs : WroteAfterEmptyRead(p)

\* The rows of the table that carry the key of the feed's record.
StoredForCandidate ==
    {r \in attacksTable : \A p \in Procs : NaturalKey(r) = NaturalKey(run[p].unique[1])}

\* C17 as claimed: when both runs read before either wrote, both found the
\* record new and both wrote it, the table holds two records for it.
C17_DoubleInsert ==
    BothWrote => Cardinality(StoredForCandidate) = 2

\* C17 as amended: in that interleaving both runs upsert the record and
\* both report one record inserted, but the upsert resolves the conflict on
\* (protocol_name, attack_date): the table holds one record for it, the row
\* of the run that wrote last.
C17_ConcurrentUpsertKeepsOne ==
    BothWrote =>
        /\ Cardinality(StoredForCandidate) = 1
        /\ Cardinality(attacksTable) = 1
        /\ \E p \in Procs : run[p].cleaned[1] \in attacksTable

\* Both runs wrote after reading an empty table, with different rows.
C17_Witness ==
    /\ BothWrote
    /\ run[1].cleaned # run[2].cleaned
    /\ \A p \in Procs : Done(p) /\ run[p].outcome.inserted = 1

\* Where in the trace of run p the call `what` was made.
Positions(p, what) == {k \in 1..Len(run[p].trace) : run[p].trace[k] = what}

\* Every call `a` of run p was made before every call `b`.
Before(p, a, b) == \A i \in Positions(p, a), j \in Positions(p, b) : i < j

AtMostOnce(p, what) == Cardinality(Positions(p, what)) <= 1

\* The stages up to the upsert, in their order and multiplicity.
StagesInOrder(p) ==
    /\ run[p].trace # <<>> => run[p].trace[1] = "log"
    /\ \A k \in Positions(p, "fetchBoard") : k = 2
    /\ Done(p) => Cardinality(Positions(p, "fetchBoard")) = 1
    /\ AtMostOnce(p, "parse") /\ Before(p, "fetchBoard", "parse")
    /\ Before(p, "parse", "article") /\ Before(p, "article", "normalize")
    /\ Cardinality(Positions(p, "article")) = Len(run[p].fetches)
    /\ AtMostOnce(p, "normalize")
    /\ AtMostOnce(p, "read") /\ Before(p, "normalize", "read")
    /\ AtMostOnce(p, "filter") /\ Before(p, "normalize", "filter") /\ Before(p, "read", "filter")
    /\ AtMostOnce(p, "merge") /\ Before(p, "filter", "merge")
    /\ AtMostOnce(p, "upsert") /\ Before(p, "merge", "upsert")
    /\ Positions(p, "upsert") # {} => Positions(p, "merge") # {}

\* The last call of run p was the completion log.
CompletionLogged(p) ==
    /\ run[p].logCalls # <<>> /\ LastLogCall(p).status = "completed"
    /\ run[p].trace[Len(run[p].trace)] = "log"

\* C18 as claimed: the stages keep their order and multiplicity, and the
\* completion log is written only after the upsert has returned.
C18_CompletionAfterUpsert ==
    \A p \in Procs :
        /\ StagesInOrder(p)
        /\ CompletionLogged(p) => Positions(p, "upsert") # {}

\* C18 as amended: the running entry is logged before the leaderboard is
\* fetched; the leaderboard is fetched once; every article request comes
\* after the parse and before the normalization; the existing keys are read
\* at most once, after the normalization; the merge follows the duplicate
\* filter; the upsert is called at most once, after the merge; in a run that
\* calls the upsert the completion log follows its return, and in a run
\* whose records are all duplicates the completion log is written without
\* any upsert.
C18_StageOrder ==
    \A p \in Procs :
        /\ StagesInOrder(p)
        /\ CompletionLogged(p) =>
               /\ Positions(p, "filter") # {}
               /\ run[p].unique # <<>> =>
                      /\ Cardinality(Positions(p, "upsert")) = 1
                      /\ \A k \in Positions(p, "upsert") : k = Len(run[p].trace) - 1
               /\ run[p].unique = <<>> => Positions(p, "upsert") = {}

\* A run that went through every stage once.
C18_Witness ==
    \E p \in Procs :
        /\ Done(p)
        /\ run[p].trace = <<"log", "fetchBoard", "parse", "article", "normalize", "read",
                            "filter", "merge", "upsert", "log">>

(***************************************************************************)
(* The article loop of scrapeLeaderboard on longer pages                   *)
(***************************************************************************)
MaxRecords == 7

\* Pages of rows without a link (EntryAb) and rows with one (EntryAB).
LoopFeeds == SeqsUpTo({EntryAb, EntryAB}, MaxRecords)

\* A request that fails and one that reads a page without details.
LoopOutcomes == {Fetched("throws", PageDetails), Fetched("page", NoDetails)}

InitLoop ==
    /\ site = LoopFeeds
    /\ supabase = TRUE
    /\ attacksTable = {}
    /\ refresh_logs = <<>>
    /\ run = [p \in {1} |-> IdleRun]
    /\ runsStarted = 0
    /\ HarnessIdle

NextLoop ==
    \/ \E p \in Procs : StartRun(p)
    \/ \E p \in Procs : FetchLeaderboard(p)
    \/ \E p \in Procs : ScrapeArticleWith(p, LoopOutcomes)

SpecLoop == InitLoop /\ [][NextLoop]_vars

\* The position in the trace of the n-th article request of run p.
NthArticle(p, n) ==
    CHOOSE k \in Positions(p, "article") :
        Cardinality({j \in Positions(p, "article") : j <= k}) = n

\* C19: whenever the number of article requests made so far reaches a
\* multiple of 5, a pause occurs before the next request starts, whichever
\* records lack a link and whichever requests failed (stated as the claim;
\* the code pauses when the index of the record in the list, not the number
\* of requests, is a multiple of 5, and only when that record has a link).
C19_PauseEveryFifthFetch ==
    \A p \in Procs :
        \A n \in 1..Cardinality(Positions(p, "article")) :
            (n % 5 = 0 /\ n < Cardinality(Positions(p, "article"))) =>
                \E k \in Positions(p, "pause") :
                    NthArticle(p, n) < k /\ k < NthArticle(p, n + 1)

(***************************************************************************)
(* The refresh schedule (cron_schedule.sql): '0 2 */2 * *'                 *)
(***************************************************************************)
CronMinute == 0
CronHour == 2
CronDayStep == 2

\* Days of month m (1..12).
DaysIn(m, leap) ==
    IF m \in {4, 6, 9, 11} THEN 30
    ELSE IF m = 2 THEN (IF leap THEN 29 ELSE 28)
    ELSE 31

\* Day-of-month field */2: every second day of the range 1-31, from 1.
DayMatches(d) == d \in 1..31 /\ (d - 1) % CronDayStep = 0

\* A firing: the day it falls on and the hours since the one before (0 for
\* the first).
Firing(month, day, gap) ==
    [month |-> month, day |-> day, hour |-> CronHour, minute |-> CronMinute, gap |-> gap]

\* The firing that follows the one on (month, day): the next matching day of
\* the month if there is one, else the first matching day of the next month.
NextFiring(month, day, leap) ==
    LET later == {d \in (day + 1)..DaysIn(month, leap) : DayMatches(d)}
    IN  IF later # {}
        THEN LET d == CHOOSE d \in later : \A e \in later : d <= e
             IN  Firing(month, d, 24 * (d - day))
        ELSE Firing(IF month = 12 THEN 1 ELSE month + 1, 1,
                    24 * (DaysIn(month, leap) - day + 1))

InitCron ==
    /\ PipelineIdle
    /\ op = "none"
    /\ arg \in {[leap |-> b] : b \in BOOLEAN}
    /\ res = Firing(1, 1, 0)

CronFires ==
    /\ op' = "cron"
    /\ res' = NextFiring(res.month, res.day, arg.leap)
    /\ UNCHANGED <<arg, pipelineVars>>

NextCron == CronFires

SpecCron == InitCron /\ [][NextCron]_vars

\* C16: the job fires at 02:00 with exactly 48 hours between any two
\* consecutive firings, month boundaries included (stated as the claim; the
\* day-of-month step starts again at day 1 of every month, so a firing on
\* the 31st is followed by one 24 hours later).
C16_Every48Hours ==
    op = "cron" =>
        /\ res.hour = 2 /\ res.minute = 0
        /\ res.gap = 48

(***************************************************************************)
(* Parser harness: one leaderboard row, one call of parseEntry             *)
(***************************************************************************)
\* A piece of a row: plain text (href empty) or a link with its text.
Seg(href, text) == [href |-> href, text |-> text]

RECURSIVE textContent(_)
textContent(segs) == IF segs = <<>> THEN <<>> ELSE Head(segs).text \o textContent(Tail(segs))

\* The element extractEntries hands to parseEntry: its text content and its
\* a[href] descendants in document order.
Element(segs) ==
    LET anchors == SelectSeq(segs, LAMBDA g : g.href # <<>>)
    IN  [text |-> textContent(segs),
         links |-> [k \in 1..Len(anchors) |-> [href |-> anchors[k].href, text |-> anchors[k].text]]]

\* Rows built from an ordinal, a name part, an amount part and a trailer.
\* `before` is what the row shows in front of the currency sign without
\* ordinal and qualifier, `linked` what its last article link with a text
\* longer than two characters shows up to the qualifier (empty: no such link).
ParseRows ==
    LET ordinals == {<<>>, <<Seg(<<>>, <<"1", ".", " ">>)>>, <<Seg(<<>>, <<"1", "2", ".", " ">>)>>}
        names ==
            {[segs |-> <<Seg(<<>>, <<"A", "b">>)>>, before |-> <<"A", "b">>, linked |-> <<>>],
             [segs |-> <<Seg(<<>>, <<"A", "b", " ", "-", " ", "x">>)>>, before |-> <<"A", "b">>, linked |-> <<>>],
             [segs |-> <<Seg(<<"/", "a", "b">>, <<"A", "b">>)>>, before |-> <<"A", "b">>, linked |-> <<>>],
             [segs |-> <<Seg(<<"/", "#", "t", "o", "p">>, <<"A", "b", "c">>)>>, before |-> <<"A", "b", "c">>, linked |-> <<>>],
             [segs |-> <<Seg(<<"/", "a", "b">>, <<"A", "b", "c">>)>>, before |-> <<"A", "b", "c">>, linked |-> <<"A", "b", "c">>],
             [segs |-> <<Seg(<<"/", "a", "b">>, <<"A", "b", "c", " ", "-", " ", "x">>)>>, before |-> <<"A", "b", "c">>, linked |-> <<"A", "b", "c">>],
             [segs |-> <<Seg(<<>>, <<"T", "h", "e", " ">>), Seg(<<"/", "a", "b">>, <<"A", "b", "c">>)>>,
              before |-> <<"T", "h", "e", " ", "A", "b", "c">>, linked |-> <<"A", "b", "c">>],
             [segs |-> <<Seg(<<"/", "a", "b">>, <<"A", "b", "c">>), Seg(<<>>, <<" ", "-", " ">>), Seg(<<"/", "x", "y">>, <<"X", "y", "z", " ", "h", "a", "c", "k">>)>>,
              before |-> <<"A", "b", "c">>, linked |-> <<"X", "y", "z", " ", "h", "a", "c", "k">>]}
        amounts == {<<" ", "$", "5">>, <<" ", "$", "1", ",", "2", "0", "0", " ", "|", " ", "1", "/", "2", "/", "2", "0", "2", "0">>, <<" ", "$", "0">>}
        trailers == {[segs |-> <<>>, linked |-> <<>>],
                     [segs |-> <<Seg(<<>>, <<" ">>), Seg(<<"/", "a", "b">>, <<"m", "o", "r", "e">>)>>, linked |-> <<"m", "o", "r", "e">>]}
    IN  {[entry |-> Element(o \o n.segs \o <<Seg(<<>>, a)>> \o t.segs),
          before |-> n.before,
          linked |-> IF t.linked # <<>> THEN t.linked ELSE n.linked] :
            o \in ordinals, n \in names, a \in amounts, t \in trailers}

InitParse ==
    /\ PipelineIdle
    /\ op = "none"
    /\ \E row \in ParseRows, today \in Todays :
         arg = [entry |-> row.entry, before |-> row.before, linked |-> row.linked,
                today |-> today]
    /\ res = <<>>

CallParseEntry ==
    /\ op = "none"
    /\ op' = "parseEntry"
    /\ res' = parseEntry(arg.entry, arg.today)
    /\ UNCHANGED <<arg, pipelineVars>>

NextParse == CallParseEntry

SpecParse == InitParse /\ [][NextParse]_vars

Accepted == op = "parseEntry" /\ res # NoRecord

\* C21 as claimed: the name of every accepted row is the text in front of
\* the first currency sign, ordinal and " - " qualifier removed, with or
\* without article links in the row.
C21_NameIsTextBeforeCurrency ==
    Accepted => res.protocol_name = Str(arg.before)

\* C21 as amended: for a row without an article link whose text is longer
\* than two characters the name is the text in front of the first currency
\* sign, ordinal and " - " qualifier removed; for a row with such links the
\* name is the text of the last of them up to its first " - ", wherever in
\* the row that link stands.
C21_NameSource ==
    Accepted =>
        /\ arg.linked = <<>> => res.protocol_name = Str(arg.before)
        /\ arg.linked # <<>> => res.protocol_name = Str(arg.linked)

\* "12. Ab - x $5" gives "Ab"; "12. The Abc $5" with Abc linked gives "Abc".
C21_Witness ==
    /\ Accepted
    /\ arg.entry.text = <<"1", "2", ".", " ", "T", "h", "e", " ", "A", "b", "c", " ", "$", "5">>
    /\ arg.before = <<"T", "h", "e", " ", "A", "b", "c">>
    /\ res.protocol_name = Str(<<"A", "b", "c">>)

\* ---------------------------------------------------------------------------
\* Attack type of an article page (scrapeArticleDetails, the attackTypes scan)
\* ---------------------------------------------------------------------------

attackTypes_genericFirst ==
    << <<"e", "x", "p", "l", "o", "i", "t">>, <<"f", "l", "a", "s", "h", " ", "l", "o", "a", "n", " ", "a", "t", "t", "a", "c", "k">>, <<"f", "l", "a", "s", "h", " ", "l", "o", "a", "n">>, <<"r", "e", "e", "n", "t", "r", "a", "n", "c", "y", " ", "a", "t", "t", "a", "c", "k">>,
       <<"r", "e", "e", "n", "t", "r", "a", "n", "c", "y">>, <<"o", "r", "a", "c", "l", "e", " ", "m", "a", "n", "i", "p", "u", "l", "a", "t", "i", "o", "n">>, <<"o", "r", "a", "c", "l", "e", " ", "a", "t", "t", "a", "c", "k">>, <<"b", "r", "i", "d", "g", "e", " ", "h", "a", "c", "k">>,
       <<"b", "r", "i", "d", "g", "e", " ", "e", "x", "p", "l", "o", "i", "t">>, <<"r", "u", "g", " ", "p", "u", "l", "l">>, <<"e", "x", "i", "t", " ", "s", "c", "a", "m">>, <<"a", "c", "c", "e", "s", "s", " ", "c", "o", "n", "t", "r", "o", "l">>,
       <<"a", "c", "c", "e", "s", "s", " ", "c", "o", "n", "t", "r", "o", "l", " ", "e", "x", "p", "l", "o", "i", "t">>, <<"f", "r", "o", "n", "t", "-", "r", "u", "n", "n", "i", "n", "g">>, <<"m", "e", "v">>,
       <<"g", "o", "v", "e", "r", "n", "a", "n", "c", "e", " ", "a", "t", "t", "a", "c", "k">>, <<"g", "o", "v", "e", "r", "n", "a", "n", "c", "e", " ", "e", "x", "p", "l", "o", "i", "t">>, <<"s", "m", "a", "r", "t", " ", "c", "o", "n", "t", "r", "a", "c", "t", " ", "e", "x", "p", "l", "o", "i", "t">> >>

attackTypes ==
    << <<"f", "l", "a", "s", "h", " ", "l", "o", "a", "n", " ", "a", "t", "t", "a", "c", "k">>, <<"f", "l", "a", "s", "h", " ", "l", "o", "a", "n">>, <<"r", "e", "e", "n", "t", "r", "a", "n", "c", "y", " ", "a", "t", "t", "a", "c", "k">>,
       <<"r", "e", "e", "n", "t", "r", "a", "n", "c", "y">>, <<"o", "r", "a", "c", "l", "e", " ", "m", "a", "n", "i", "p", "u", "l", "a", "t", "i", "o", "n">>, <<"o", "r", "a", "c", "l", "e", " ", "a", "t", "t", "a", "c", "k">>, <<"b", "r", "i", "d", "g", "e", " ", "h", "a", "c", "k">>,
       <<"b", "r", "i", "d", "g", "e", " ", "e", "x", "p", "l", "o", "i", "t">>, <<"r", "u", "g", " ", "p", "u", "l", "l">>, <<"e", "x", "i", "t", " ", "s", "c", "a", "m">>, <<"a", "c", "c", "e", "s", "s", " ", "c", "o", "n", "t", "r", "o", "l">>,
       <<"a", "c", "c", "e", "s", "s", " ", "c", "o", "n", "t", "r", "o", "l", " ", "e", "x", "p", "l", "o", "i", "t">>, <<"f", "r", "o", "n", "t", "-", "r", "u", "n", "n", "i", "n", "g">>, <<"m", "e", "v">>,
       <<"g", "o", "v", "e", "r", "n", "a", "n", "c", "e", " ", "a", "t", "t", "a", "c", "k">>, <<"g", "o", "v", "e", "r", "n", "a", "n", "c", "e", " ", "e", "x", "p", "l", "o", "i", "t">>, <<"s", "m", "a", "r", "t", " ", "c", "o", "n", "t", "r", "a", "c", "t", " ", "e", "x", "p", "l", "o", "i", "t">>,
       <<"e", "x", "p", "l", "o", "i", "t">> >>

\* content = body text lower-cased; the first listed phrase it includes gives
\* atype.split(' ')[0]; no phrase leaves attack_type unset.
attackTypeOf(bodyText) ==
    LET content == toLowerCase(bodyText)
        found   == {k \in 1..Len(attackTypes) : includes(content, attackTypes[k])}
    IN  IF found = {} THEN Undef
        ELSE LET first == CHOOSE k \in found : \A j \in found : k <= j
             IN  Str(splitFirst(attackTypes[first], <<" ">>))

\* Pieces of page text, each with the position in the list of the earliest
\* phrase it contains (0: none), that phrase, and the phrase's first word.
PagePieces ==
    { [text |-> <<"F", "l", "a", "s", "h", " ", "L", "o", "a", "n", " ", "A", "t", "t", "a", "c", "k">>, rank |-> 1, phrase |-> <<"f", "l", "a", "s", "h", " ", "l", "o", "a", "n", " ", "a", "t", "t", "a", "c", "k">>, word |-> <<"f", "l", "a", "s", "h">>],
      [text |-> <<"a", " ", "f", "l", "a", "s", "h", " ", "l", "o", "a", "n">>, rank |-> 2, phrase |-> <<"f", "l", "a", "s", "h", " ", "l", "o", "a", "n">>, word |-> <<"f", "l", "a", "s", "h">>],
      [text |-> <<"R", "E", "E", "N", "T", "R", "A", "N", "C", "Y">>, rank |-> 4, phrase |-> <<"r", "e", "e", "n", "t", "r", "a", "n", "c", "y">>, word |-> <<"r", "e", "e", "n", "t", "r", "a", "n", "c", "y">>],
      [text |-> <<"b", "r", "i", "d", "g", "e", " ", "e", "x", "p", "l", "o", "i", "t">>, rank |-> 8, phrase |-> <<"b", "r", "i", "d", "g", "e", " ", "e", "x", "p", "l", "o", "i", "t">>, word |-> <<"b", "r", "i", "d", "g", "e">>],
      [text |-> <<"r", "u", "g", " ", "p", "u", "l", "l">>, rank |-> 9, phrase |-> <<"r", "u", "g", " ", "p", "u", "l", "l">>, word |-> <<"r", "u", "g">>],
      [text |-> <<"m", "e", "v", " ", "b", "o", "t">>, rank |-> 14, phrase |-> <<"m", "e", "v">>, word |-> <<"m", "e", "v">>],
      [text |-> <<"s", "m", "a", "r", "t", " ", "c", "o", "n", "t", "r", "a", "c", "t", " ", "e", "x", "p", "l", "o", "i", "t">>, rank |-> 15, phrase |-> <<"s", "m", "a", "r", "t", " ", "c", "o", "n", "t", "r", "a", "c", "t", " ", "e", "x", "p", "l", "o", "i", "t">>, word |-> <<"s", "m", "a", "r", "t">>],
      [text |-> <<"a", "n", " ", "e", "x", "p", "l", "o", "i", "t">>, rank |-> 16, phrase |-> <<"e", "x", "p", "l", "o", "i", "t">>, word |-> <<"e", "x", "p", "l", "o", "i", "t">>],
      [text |-> <<"h", "e", "l", "l", "o">>, rank |-> 0, phrase |-> <<>>, word |-> <<>>] }

\* A page is one piece or two pieces separated by ". "; `first` is the piece
\* whose phrase comes earliest in the list.
Pages ==
    LET earlier(a, b) == IF b.rank # 0 /\ (a.rank = 0 \/ b.rank < a.rank) THEN b ELSE a
    IN  {[body |-> a.text, first |-> a] : a \in PagePieces}
        \cup {[body |-> a.text \o <<".", " ">> \o b.text, first |-> earlier(a, b)] :
                a \in PagePieces, b \in PagePieces}

InitType ==
    /\ PipelineIdle
    /\ op = "none"
    /\ arg \in Pages
    /\ res = <<>>

CallAttackTypeOf ==
    /\ op = "none"
    /\ op' = "attackTypeOf"
    /\ res' = attackTypeOf(arg.body)
    /\ UNCHANGED <<arg, pipelineVars>>

NextType == CallAttackTypeOf

SpecType == InitType /\ [][NextType]_vars

Typed == op = "attackTypeOf"

\* C22 (as stated): the attack type is the earliest listed phrase found in
\* the lower-cased page text, so it is always one of the listed phrases, and
\* a page with no listed phrase has no attack type.
C22_TypeIsListedPhrase ==
    Typed =>
        /\ arg.first.rank = 0 => res = Undef
        /\ arg.first.rank # 0 =>
              /\ res = Str(arg.first.phrase)
              /\ \E k \in 1..Len(attackTypes) : res = Str(attackTypes[k])

\* C22 (amended): the attack type is the first word of the earliest listed
\* phrase found in the lower-cased page text, and a page with no listed
\* phrase has no attack type.
C22_TypeIsFirstWordOfEarliestPhrase ==
    Typed =>
        /\ arg.first.rank = 0 => res = Undef
        /\ arg.first.rank # 0 => res = Str(arg.first.word)

C22_Witness ==
    /\ Typed
    /\ arg.body = <<"a", "n", " ", "e", "x", "p", "l", "o", "i", "t", ".", " ", "F", "l", "a", "s", "h", " ", "L", "o", "a", "n", " ", "A", "t", "t", "a", "c", "k">>
    /\ arg.first.rank = 1
    /\ res = Str(<<"f", "l", "a", "s", "h">>)

\* ---------------------------------------------------------------------------
\* Runs in a build with or without a language-model key
\* ---------------------------------------------------------------------------

\* OPENAI_API_KEY is read once when the modules load (llmProcessor.ts line 20,
\* duplicateChecker.ts line 10); `arg` holds the environment of the build.
KeyedFeeds == {<<EntryAB>>, <<EntryCurve>>}

InitKeyed ==
    /\ site = KeyedFeeds
    /\ supabase \in BOOLEAN
    /\ attacksTable = {}
    /\ refresh_logs = <<>>
    /\ run = [p \in {1} |-> IdleRun]
    /\ runsStarted = 0
    /\ op = "none"
    /\ arg \in [OPENAI_API_KEY : BOOLEAN]
    /\ res = <<>>

SpecKeyed == InitKeyed /\ [][Next]_vars

\* The requests and steps of a run that does not consult the language model.
PlainSteps ==
    {"log", "fetchBoard", "parse", "article", "pause", "normalize", "read",
     "filter", "merge", "upsert"}

Step(p) ==
    \/ FetchLeaderboardFails(p)
    \/ FetchLeaderboard(p)
    \/ ScrapeArticle(p)
    \/ ProcessData(p)
    \/ FilterDuplicates(p)
    \/ LogAllDuplicates(p)
    \/ InsertAttacks(p)
    \/ InsertAttacksFails(p)
    \/ LogCompleted(p)
    \/ Catch(p)

\* Every external call returns or fails, so a started run takes its next
\* step; starting a run is the caller's choice.
SpecLive == InitKeyed /\ [][Next]_vars /\ WF_vars(Step(1))

InProgress(p) == run[p].pc \notin {"idle", "done"}

\* C24: every started run eventually ends, returned with status completed
\* or thrown, and its last log call is then a completed or a failed one.
C24_RunTerminates ==
    InProgress(1) ~>
        /\ run[1].pc = "done"
        /\ \/ /\ run[1].outcome.kind = "returned"
              /\ run[1].outcome.status = "completed"
              /\ LastLogCall(1).status = "completed"
           \/ /\ run[1].outcome.kind = "thrown"
              /\ LastLogCall(1).status = "failed"

C24_Witness ==
    /\ run[1].pc = "done"
    /\ run[1].outcome.kind = "thrown"
    /\ LastLogCall(1).status = "failed"
    /\ Called(1, "article")
    /\ Called(1, "upsert")

\* The log rows run p wrote with a terminal status.
TerminalRows(p) == {id \in WrittenIds(p) : refresh_logs[id].status \in {"completed", "failed"}}

\* C25: a finished run has written exactly one terminal log entry, one
\* completed or one failed (stated for the runs all of whose log writes the
\* store accepted; a run that scraped nothing, or whose records were all
\* rejected, writes a failed entry before throwing and another in the catch
\* block).
C25_OneTerminalEntry ==
    \A p \in Procs :
        (Done(p) /\ \A k \in 1..Len(run[p].logCalls) : run[p].logCalls[k].id # 0) =>
            Cardinality(TerminalRows(p)) = 1

\* Run p is past filterDuplicates, whose read of the existing keys gave
\* nothing (client not configured, error returned, or thrown).
ReadFailed(p) == Called(p, "filter") /\ run[p].readRows = -1

PastInsert(p) == run[p].pc \in {"logCompleted", "catch", "done"}

\* C26 (as stated): after a failed read every candidate is unique, the
\* duplicate set is empty, and the run goes on to upsert the batch.
C26_FailedReadUpsertsBatch ==
    \A p \in Procs :
        ReadFailed(p) =>
            /\ run[p].unique = run[p].processedAttacks
            /\ run[p].duplicates = <<>>
            /\ PastInsert(p) => Called(p, "upsert")

\* C26 (amended): after a failed read every candidate is unique and the
\* duplicate set is empty, and the run goes on to insertAttacks with the
\* merged batch, which has a row for every candidate's key; with a client
\* the upsert is sent, without one insertAttacks throws and nothing is sent.
C26_FailedReadFailsOpen ==
    \A p \in Procs :
        ReadFailed(p) =>
            /\ run[p].unique = run[p].processedAttacks
            /\ run[p].duplicates = <<>>
            /\ run[p].pc # "allDuplicates"
            /\ PastInsert(p) =>
                  /\ \A k \in 1..Len(run[p].processedAttacks) :
                        \E j \in 1..Len(run[p].cleaned) :
                            SameNaturalKey(run[p].cleaned[j], run[p].processedAttacks[k])
                  /\ supabase => Called(p, "upsert")
                  /\ ~supabase =>
                        /\ ~Called(p, "upsert")
                        /\ run[p].error = NotConfigured

\* The read failed, a candidate's key is already stored, and the upsert was
\* sent.
C26_Witness ==
    \E p \in Procs :
        /\ ReadFailed(p)
        /\ supabase
        /\ run[p].pc = "logCompleted"
        /\ Len(run[p].cleaned) = 1
        /\ Cardinality({r \in attacksTable : SameNaturalKey(run[p].cleaned[1], r)}) = 2

\* The rows of the table after a step whose (protocol_name, attack_date) no
\* row of the table had before it.
NewRecords ==
    {r \in attacksTable' :
        ~ \E x \in attacksTable : /\ x.protocol_name = r.protocol_name
                                  /\ x.attack_date = r.attack_date}

\* C27: the records_inserted a run reports is the number of records the
\* store has after its upsert and did not have before; a row the upsert
\* only refreshed is not counted (stated as the claim; insertAttacks
\* returns the number of rows the upsert gave back, refreshed rows
\* included).
C27_InsertedCountsNewRecords ==
    [][\A p \in Procs :
          (run[p].pc = "insert" /\ run'[p].pc = "logCompleted") =>
              run'[p].result = Cardinality(NewRecords)]_vars

\* The rearrangements of a batch.
Rearranged(batch) ==
    {[k \in 1..Len(batch) |-> batch[f[k]]] :
        f \in {g \in [1..Len(batch) -> 1..Len(batch)] :
                  \A a, b \in 1..Len(batch) : g[a] = g[b] => a = b}}

\* C28 (as stated): the merge hands the upsert the same set of records for
\* every order of the candidates.
C28_MergeOrderIndependent ==
    op = "cleanedData" =>
        \A other \in Rearranged(arg) :
            {cleanedData(other)[j] : j \in 1..Len(cleanedData(other))}
                = {res[j] : j \in 1..Len(res)}

\* C28 (amended): for every order the merge hands the upsert one record per
\* composite key of the batch; the record kept for a key is its first
\* candidate unless a later candidate of the key has a description or a
\* link that the first lacks.
C28_FirstKeptUnlessLaterAdds ==
    op = "cleanedData" =>
        /\ {NaturalKey(res[j]) : j \in 1..Len(res)} = {NaturalKey(arg[k]) : k \in 1..Len(arg)}
        /\ Len(res) = Cardinality({NaturalKey(arg[k]) : k \in 1..Len(arg)})
        /\ \A k \in 1..Len(arg) :
              LET first == \A m \in 1..(k - 1) : NaturalKey(arg[m]) # NaturalKey(arg[k])
                  adds(c) == \/ arg[k].description = <<>> /\ c.description # <<>>
                             \/ ~Truthy(arg[k].source_url) /\ Truthy(c.source_url)
              IN  (first /\ \A m \in (k + 1)..Len(arg) :
                                NaturalKey(arg[m]) = NaturalKey(arg[k]) => ~adds(arg[m]))
                      => \E j \in 1..Len(res) : res[j] = cleanRow(arg[k])

\* Two candidates of one key, equally complete and differing in the letter
\* case of the name: the first is kept, whichever comes first.
C28_Witness ==
    /\ op = "cleanedData"
    /\ Len(arg) = 2
    /\ arg[1].protocol_name = <<"A", "b">>
    /\ arg[2].protocol_name = <<"A", "B">>
    /\ arg[1].attack_date = arg[2].attack_date
    /\ arg[1].description = <<>> /\ arg[2].description = <<>>
    /\ res = <<cleanRow(arg[1])>>
    /\ cleanedData(<<arg[2], arg[1]>>) = <<cleanRow(arg[2])>>

\* Row r has the (protocol_name, attack_date) of row x, as the table's
\* unique constraint compares them.
SameStoredKey(r, x) == r.protocol_name = x.protocol_name /\ r.attack_date = x.attack_date

\* C29: with one caller, the upsert of a run whose read of the existing
\* keys succeeded is given no record whose (protocol_name, attack_date) the
\* store has, and leaves every stored record as it was: it only adds rows.
C29_UpsertOnlyAdds ==
    [][\A p \in Procs :
          (run[p].pc = "insert" /\ run[p].readRows # -1) =>
              /\ attacksTable \subseteq attacksTable'
              /\ \A j \in 1..Len(run'[p].cleaned) :
                    ~ \E r \in attacksTable : SameStoredKey(r, run'[p].cleaned[j])
              /\ run'[p].pc = "logCompleted" =>
                    attacksTable' = attacksTable
                        \cup {run'[p].cleaned[j] : j \in 1..Len(run'[p].cleaned)}]_vars

\* A run read the stored rows and its upsert added a row to them.
C29_Witness ==
    \E p \in Procs :
        /\ run[p].pc = "logCompleted"
        /\ run[p].readRows > 0
        /\ run[p].duplicates # <<>>
        /\ Cardinality(attacksTable) = run[p].readRows + Len(run[p].cleaned)

(***************************************************************************)
(* Dashboard (Dashboard.tsx, handleScrapeRekt and the refresh button)      *)
(***************************************************************************)
\* `arg` holds the component's state: isScraping and scrapeMessage as last
\* rendered (an update made in the click handler is rendered before the next
\* click is delivered), the place of each handleScrapeRekt call in flight,
\* and the calls whose ten-second timer is pending. The calls are numbered in
\* the order of the clicks.
NoHandlers == [p \in {1, 2} |-> "none"]

\* The component renders the button only when the store client is configured
\* (lines 36-66).
InitDash ==
    /\ site = SameFeed
    /\ supabase = TRUE
    /\ attacksTable = {}
    /\ refresh_logs = <<>>
    /\ run = [p \in {1, 2} |-> IdleRun]
    /\ runsStarted = 0
    /\ op = "none"
    /\ arg = [isScraping |-> FALSE, scrapeMessage |-> "null", handler |-> NoHandlers, timers |-> {}]
    /\ res = <<>>

dashVars == <<site, supabase, attacksTable, refresh_logs, run, runsStarted, op, res>>

\* Variant of Click whose button is not disabled while a run is in flight.
Click_neverDisabled(p) ==
    /\ arg.handler[p] = "none"
    /\ run[p].pc = "idle"
    /\ \A q \in 1..(p - 1) : run[q].pc # "idle"
    /\ arg' = [arg EXCEPT !.isScraping = TRUE,
                          !.scrapeMessage = "Starting web scraping...",
                          !.handler[p] = "awaitRun"]
    /\ UNCHANGED dashVars

\* Lines 159-160 and 69-72: a click on the enabled button runs
\* handleScrapeRekt up to its call of scrapeRektLeaderboard.
Click(p) ==
    /\ ~arg.isScraping
    /\ arg.handler[p] = "none"
    /\ run[p].pc = "idle"
    /\ \A q \in 1..(p - 1) : run[q].pc # "idle"
    /\ arg' = [arg EXCEPT !.isScraping = TRUE,
                          !.scrapeMessage = "Starting web scraping...",
                          !.handler[p] = "awaitRun"]
    /\ UNCHANGED dashVars

\* Line 72: the run handleScrapeRekt called starts.
DashStart(p) ==
    /\ arg.handler[p] = "awaitRun"
    /\ run[p].pc = "idle"
    /\ StartRun(p)

\* Lines 72-81: the run returned; the message is set and the five queries
\* are refetched.
RunReturned(p) ==
    /\ arg.handler[p] = "awaitRun"
    /\ run[p].pc = "done"
    /\ run[p].outcome.kind = "returned"
    /\ arg' = [arg EXCEPT !.scrapeMessage = "result.message", !.handler[p] = "refetch"]
    /\ UNCHANGED dashVars

\* Lines 82-88: the refetches are over; the timer is set and the finally
\* block clears isScraping.
Refetched(p) ==
    /\ arg.handler[p] = "refetch"
    /\ arg' = [arg EXCEPT !.isScraping = FALSE,
                          !.handler[p] = "none",
                          !.timers = @ \cup {p}]
    /\ UNCHANGED dashVars

\* Lines 84-88: the run threw; the catch sets the message and the finally
\* block clears isScraping.
RunThrew(p) ==
    /\ arg.handler[p] = "awaitRun"
    /\ run[p].pc = "done"
    /\ run[p].outcome.kind = "thrown"
    /\ arg' = [arg EXCEPT !.isScraping = FALSE,
                          !.scrapeMessage = IF run[p].outcome.error.message # ""
                                            THEN run[p].outcome.error.message
                                            ELSE "Failed to scrape rekt.news. This may take several minutes - please try again.",
                          !.handler[p] = "none"]
    /\ UNCHANGED dashVars

\* Line 83: the timer set after a successful run clears the message.
ClearMessage(p) ==
    /\ p \in arg.timers
    /\ arg' = [arg EXCEPT !.scrapeMessage = "null", !.timers = @ \ {p}]
    /\ UNCHANGED dashVars

NextDash ==
    \/ \E p \in Procs : Click(p)
    \/ \E p \in Procs : DashStart(p)
    \/ \E p \in Procs : FetchLeaderboardFails(p)
    \/ \E p \in Procs : FetchLeaderboard(p)
    \/ \E p \in Procs : ScrapeArticle(p)
    \/ \E p \in Procs : ProcessData(p)
    \/ \E p \in Procs : FilterDuplicates(p)
    \/ \E p \in Procs : LogAllDuplicates(p)
    \/ \E p \in Procs : InsertAttacks(p)
    \/ \E p \in Procs : InsertAttacksFails(p)
    \/ \E p \in Procs : LogCompleted(p)
    \/ \E p \in Procs : Catch(p)
    \/ \E p \in Procs : RunReturned(p)
    \/ \E p \in Procs : Refetched(p)
    \/ \E p \in Procs : RunThrew(p)
    \/ \E p \in Procs : ClearMessage(p)

\* A call in flight goes on: the run takes its steps and the refetches
\* return. Clicks are the user's choice.
HandlerStep ==
    \E p \in {1, 2} :
        DashStart(p) \/ Step(p) \/ RunReturned(p) \/ Refetched(p) \/ RunThrew(p)

SpecDash == InitDash /\ [][NextDash]_vars /\ WF_vars(HandlerStep)

\* C30: from one dashboard at most one run is in progress and at most one
\* handleScrapeRekt call is in flight; the button is disabled while a call
\* awaits its run, enabled whenever no call is in flight, and once disabled
\* it is enabled again, after a returned run and after a thrown one.
C30_OneRunAtATime ==
    /\ [](/\ Cardinality({p \in Procs : InProgress(p)}) <= 1
          /\ Cardinality({p \in Procs : arg.handler[p] # "none"}) <= 1
          /\ \A p \in Procs : (InProgress(p) \/ arg.handler[p] # "none") => arg.isScraping
          /\ (\A p \in Procs : arg.handler[p] = "none") => ~arg.isScraping)
    /\ (arg.isScraping ~> ~arg.isScraping)

\* A first run threw, the button was enabled again, and a second click
\* started a second run.
C30_Witness ==
    /\ run[1].pc = "done"
    /\ run[1].outcome.kind = "thrown"
    /\ arg.handler[1] = "none"
    /\ InProgress(2)
    /\ arg.handler[2] = "awaitRun"
    /\ arg.isScraping

====
